---- MODULE Spec2Model ----
(***************************************************************************)
(* A model of the answer CLI / MCP server (chew-z/web_search).             *)
(* UnitSpec applies the pure functions (ExtractAnswer, getTimeoutForEffort) *)
(* to inputs drawn from bounded sets, the way the unit tests call them.     *)
(***************************************************************************)
EXTENDS Integers, Sequences, FiniteSets, TLC

\* ------------------------------------------------------------------ bounds
\* The most output items of a response envelope.
MaxItems == 2
\* The most content segments of a response envelope, over all its items.
MaxSegs == 3
\* The tool invocations a server handles in one run.
MaxCalls == 2
\* The goroutines that use the global logger, and the calls they make in all.
MaxLoggers == 2
MaxLogCalls == 3

\* ------------------------------------------------------- program constants
\* config.go: timeouts based on reasoning effort, in seconds.
timeoutMinimal == 90
timeoutLow == 3 * 60
timeoutMedium == 5 * 60
timeoutHigh == 10 * 60

\* ------------------------------------------------------------- data model
\* A text is a sequence of characters; "" is <<>>.
Texts == {<<>>, <<"A">>, <<"B", "C">>}
ItemKinds == {"message", "tool_code"}
SegKinds == {"output_text", "image"}

\* type respContent struct { Type, Text }
respContent == [Type : SegKinds, Text : Texts]

\* type respItem struct { Type, Content }: a []respItem whose i-th item has kind
\* kinds[i] and the next counts[i] segments of segs as its content.
RECURSIVE SegsBefore(_, _)
SegsBefore(counts, i) ==
    IF i <= 1 THEN 0 ELSE counts[i - 1] + SegsBefore(counts, i - 1)

MkOutput(kinds, counts, segs) ==
    [i \in DOMAIN kinds |->
        [Type |-> kinds[i],
         Content |-> [j \in 1..counts[i] |-> segs[SegsBefore(counts, i) + j]]]]

\* type apiResponse struct { ID, Model, Reasoning, Output }
MkResponse(id, model, effort, output) ==
    [ID |-> id, Model |-> model, Reasoning |-> [Effort |-> effort], Output |-> output]

\* The zero value of apiResponse.
ZeroResponse == MkResponse("", "", "", <<>>)

\* A *apiResponse: nil, or a pointer to a value.
NilResponse == [nil |-> TRUE, val |-> ZeroResponse]
PtrTo(v) == [nil |-> FALSE, val |-> v]

\* What a Go call ends with: a returned value, or a run-time panic.
Return(v) == [panic |-> FALSE, val |-> v]
Panic == [panic |-> TRUE, val |-> <<>>]

\* ---------------------------------------------------------- ExtractAnswer
\* The inner loop of ExtractAnswer: for _, content := range item.Content.
RECURSIVE CollectContent(_, _)
CollectContent(content, answers) ==
    IF content = <<>> THEN answers
    ELSE LET c == Head(content) IN
         CollectContent(Tail(content),
                        IF c.Type = "output_text" /\ c.Text # <<>>
                        THEN Append(answers, c.Text)
                        ELSE answers)

RECURSIVE CollectAnyItem(_, _)
CollectAnyItem(output, answers) ==
    IF output = <<>> THEN answers
    ELSE CollectAnyItem(Tail(output), CollectContent(Head(output).Content, answers))

\* The outer loop of ExtractAnswer: for _, item := range apiResp.Output.
RECURSIVE CollectOutput(_, _)
CollectOutput(output, answers) ==
    IF output = <<>> THEN answers
    ELSE LET item == Head(output) IN
         CollectOutput(Tail(output),
                       IF item.Type # "message"
                       THEN answers
                       ELSE CollectContent(item.Content, answers))

\* The join loop of ExtractAnswer: for i, text := range answers.
RECURSIVE JoinAnswers(_, _, _)
JoinAnswers(answers, i, answer) ==
    IF i > Len(answers) THEN answer
    ELSE JoinAnswers(answers, i + 1,
                     (IF i > 1 THEN answer \o <<" ">> ELSE answer) \o answers[i])

\* ExtractAnswer with the nil check left out: apiResp.Output dereferences nil.
ExtractAnswerNoNilCheck(apiResp) ==
    IF apiResp.nil THEN Panic
    ELSE LET answers == CollectOutput(apiResp.val.Output, <<>>) IN
         IF Len(answers) > 0 THEN Return(JoinAnswers(answers, 1, <<>>))
         ELSE Return(<<>>)

\* func ExtractAnswer(apiResp *apiResponse) string
ExtractAnswer(apiResp) ==
    IF apiResp.nil THEN Return(<<>>)
    ELSE LET answers == CollectOutput(apiResp.val.Output, <<>>) IN
         IF Len(answers) > 0 THEN Return(JoinAnswers(answers, 1, <<>>))
         ELSE Return(<<>>)

\* The envelope after a call of ExtractAnswer that empties the output it read.
ExtractAnswerDrains(apiResp) ==
    IF apiResp.nil THEN apiResp
    ELSE PtrTo([apiResp.val EXCEPT !.Output = <<>>])

\* The envelope behind the pointer after a call of ExtractAnswer: the function
\* ranges over apiResp.Output by value and assigns only to its locals answers
\* and answer, so the envelope is what it was.
ExtractAnswerLeaves(apiResp) ==
    IF apiResp.nil THEN apiResp
    ELSE PtrTo(MkResponse(apiResp.val.ID, apiResp.val.Model, apiResp.val.Reasoning.Effort,
                          [i \in DOMAIN apiResp.val.Output |-> apiResp.val.Output[i]]))

\* ---------------------------------------------------- getTimeoutForEffort
getTimeoutDefaultsToMedium(effort) ==
    CASE effort = "high" -> timeoutHigh
      [] effort = "medium" -> timeoutMedium
      [] effort = "low" -> timeoutLow
      [] effort = "minimal" -> timeoutMinimal
      [] OTHER -> timeoutMedium

\* func getTimeoutForEffort(effort string) time.Duration
getTimeoutForEffort(effort) ==
    CASE effort = "high" -> timeoutHigh
      [] effort = "medium" -> timeoutMedium
      [] effort \in {"low", ""} -> timeoutLow
      [] effort = "minimal" -> timeoutMinimal
      [] OTHER -> timeoutLow

\* ------------------------------------------------------------ EffortPolicy
defaultModel == "gpt-5-mini"
defaultEffort == "medium"
defaultVerbosity == "medium"
defaultBaseURL == "https://api.openai.com/v1/responses"

\* validateEffort with "low" as the label for what it does not recognise.
validateEffortDefaultsLow(effort) ==
    CASE effort \in {"minimal", "low", "medium", "high"} -> effort
      [] effort = "" -> "low"
      [] OTHER -> "low"

\* func validateEffort(effort string) string
validateEffort(effort) ==
    CASE effort \in {"minimal", "low", "medium", "high"} -> effort
      [] effort = "" -> defaultEffort
      [] OTHER -> defaultEffort

\* func validateVerbosity(verbosity string) string
validateVerbosity(verbosity) ==
    CASE verbosity \in {"low", "medium", "high"} -> verbosity
      [] verbosity = "" -> defaultVerbosity
      [] OTHER -> defaultVerbosity

\* time.Duration.String() of a whole number of seconds under an hour: "5m0s", "45s".
DurationString(d) ==
    IF d >= 60 THEN ToString(d \div 60) \o "m" \o ToString(d % 60) \o "s"
    ELSE ToString(d) \o "s"

\* ----------------------------------------------- SearchNecessityClassifier
\* strings.Contains, strings.HasPrefix, strings.ToLower and strings.TrimSpace
\* on ASCII text.
Contains(str, substr) ==
    \E i \in 1..(Len(str) - Len(substr) + 1) : SubSeq(str, i, i + Len(substr) - 1) = substr

HasPrefix(str, prefix) ==
    Len(str) >= Len(prefix) /\ SubSeq(str, 1, Len(prefix)) = prefix

UpperLetters == "ABCDEFGHIJKLMNOPQRSTUVWXYZ"
LowerLetters == "abcdefghijklmnopqrstuvwxyz"

\* The letter c in the other alphabet; any other character is itself.
MapLetter(c, from, to) ==
    IF \E i \in 1..Len(from) : SubSeq(from, i, i) = c
    THEN LET i == CHOOSE i \in 1..Len(from) : SubSeq(from, i, i) = c IN SubSeq(to, i, i)
    ELSE c

RECURSIVE ToLowerFrom(_, _)
ToLowerFrom(str, i) ==
    IF i > Len(str) THEN ""
    ELSE MapLetter(SubSeq(str, i, i), UpperLetters, LowerLetters) \o ToLowerFrom(str, i + 1)

ToLower(str) == ToLowerFrom(str, 1)

WhiteSpace == {" ", "\t", "\n", "\r"}

TrimSpace(str) ==
    LET black == {i \in 1..Len(str) : SubSeq(str, i, i) \notin WhiteSpace} IN
    IF black = {} THEN ""
    ELSE SubSeq(str, CHOOSE i \in black : \A j \in black : i <= j,
                     CHOOSE i \in black : \A j \in black : i >= j)

currentIndicators ==
    <<"latest", "recent", "current", "now", "today", "this year", "2024", "2025",
      "news", "breaking", "updates", "happening", "trending", "new", "just",
      "price", "stock", "weather", "forecast", "schedule", "events",
      "who won", "who is", "what happened", "when did", "status of">>

searchIndicators ==
    <<"find", "search", "look up", "reviews", "comparison", "vs",
      "best", "top", "list of", "guide", "tutorial", "how to",
      "where can i", "where to", "contact", "address", "phone",
      "buy", "purchase", "store", "shop", "available">>

knowledgePatterns ==
    <<"what is", "define", "explain", "how does", "why does", "what does",
      "capital of", "president of", "author of", "invented", "discovered",
      "formula", "equation", "rule", "law", "theory", "principle",
      "meaning of", "difference between", "history of", "origin of">>

\* The return statement of ShouldUseWebSearch a query leaves by: the recency
\* loop (line 303), the search loop (310), the recency loop inside the
\* knowledge branch (327), the end of the knowledge branch (331), the end (336).
ReturnTaken(queryLower) ==
    IF \E i \in DOMAIN currentIndicators : Contains(queryLower, currentIndicators[i])
    THEN "current"
    ELSE IF \E i \in DOMAIN searchIndicators : Contains(queryLower, searchIndicators[i])
    THEN "search"
    ELSE IF \E i \in DOMAIN knowledgePatterns : HasPrefix(queryLower, knowledgePatterns[i])
    THEN IF \E i \in DOMAIN currentIndicators : Contains(queryLower, currentIndicators[i])
         THEN "current again"
         ELSE "knowledge"
    ELSE "default"

\* The body of ShouldUseWebSearch with the knowledge prefixes tested first.
ClassifyKnowledgeFirst(queryLower) ==
    IF \E i \in DOMAIN knowledgePatterns : HasPrefix(queryLower, knowledgePatterns[i])
    THEN \E i \in DOMAIN currentIndicators : Contains(queryLower, currentIndicators[i])
    ELSE TRUE

\* The body of ShouldUseWebSearch after queryLower is computed.
Classify(queryLower) ==
    IF \E i \in DOMAIN currentIndicators : Contains(queryLower, currentIndicators[i])
    THEN TRUE
    ELSE IF \E i \in DOMAIN searchIndicators : Contains(queryLower, searchIndicators[i])
    THEN TRUE
    ELSE IF \E i \in DOMAIN knowledgePatterns : HasPrefix(queryLower, knowledgePatterns[i])
    THEN IF \E i \in DOMAIN currentIndicators : Contains(queryLower, currentIndicators[i])
         THEN TRUE
         ELSE FALSE
    ELSE TRUE

\* ShouldUseWebSearch deciding on the query as typed.
ShouldUseWebSearchAsTyped(query) ==
    \E trimmed \in {TrimSpace(query)} : Classify(trimmed)

\* func ShouldUseWebSearch(query string) bool:
\* queryLower := strings.ToLower(strings.TrimSpace(query)), computed once.
ShouldUseWebSearch(query) ==
    \E trimmed \in {TrimSpace(query)} :
       \E queryLower \in {ToLower(trimmed)} : Classify(queryLower)

\* ------------------------------------------------------------------ errors
\* A JSON field of a response body: absent, or a value of some JSON type.
Absent == [t |-> "absent", str |-> "", arr |-> <<>>]
JString(str) == [t |-> "string", str |-> str, arr |-> <<>>]
JNumber(digits) == [t |-> "number", str |-> digits, arr |-> <<>>]
JArray(seq) == [t |-> "array", str |-> "", arr |-> seq]

\* No body at all (the Body of an error that carries none).
NoBody ==
    [syntax |-> "none", text |-> "", id |-> Absent, model |-> Absent,
     effort |-> Absent, output |-> Absent]

\* A Go error is the chain errors.Unwrap walks, outermost first; nil is <<>>.
\* A link has a dynamic type and a message, the fields of *APIError, and what
\* it answers to net.Error (Timeout) and to errors.Is.
Link(type, text) ==
    [type |-> type, text |-> text, status |-> 0, body |-> NoBody,
     netError |-> FALSE, timeout |-> FALSE, is |-> {}]

NoError == <<>>

\* var ErrNoAPIKey = errors.New("OPENAI_API_KEY environment variable is required")
ErrNoAPIKey ==
    <<Link("errors.errorString", "OPENAI_API_KEY environment variable is required")>>

\* &APIError{StatusCode: status, Body: body}
APIError(status, body) ==
    <<[Link("APIError", "API error") EXCEPT !.status = status, !.body = body]>>

\* fmt.Errorf(prefix + ": %v", err): the cause is formatted into the text and lost.
ErrorfV(prefix, err) == <<Link("fmt.errorString", prefix)>>

\* fmt.Errorf(prefix + ": %w", err): a *fmt.wrapError that unwraps to err.
Errorf(prefix, err) == <<Link("fmt.wrapError", prefix)>> \o err

\* errors.Is(err, target), target a one-link sentinel.
ErrorsIs(err, target) ==
    \E i \in DOMAIN err : err[i] = target[1] \/ target[1].type \in err[i].is

\* errors.As(err, &t) for a target of dynamic type `type`: the first such link.
ErrorsAs(err, type) ==
    LET hits == {i \in DOMAIN err : err[i].type = type} IN
    IF hits = {} THEN <<>>
    ELSE <<err[CHOOSE i \in hits : \A j \in hits : i <= j]>>

\* var nerr net.Error; errors.As(err, &nerr) && nerr.Timeout()
IsNetTimeout(err) ==
    LET hits == {i \in DOMAIN err : err[i].netError} IN
    /\ hits # {}
    /\ err[CHOOSE i \in hits : \A j \in hits : i <= j].timeout

\* What net/http reports for each way the call can fail to complete.
ContextCanceled == <<Link("context.Canceled", "context canceled")>>
ContextDeadlineExceeded ==
    <<[Link("context.DeadlineExceeded", "context deadline exceeded")
        EXCEPT !.netError = TRUE, !.timeout = TRUE]>>
ClientTimeoutError ==
    <<[Link("http.timeoutError", "Client.Timeout exceeded")
        EXCEPT !.netError = TRUE, !.timeout = TRUE, !.is = {"context.DeadlineExceeded"}]>>
ConnectionError ==
    <<[Link("net.OpError", "connection refused") EXCEPT !.netError = TRUE]>>

\* &url.Error{Op: "Post", Err: err}: Timeout() asks the wrapped error.
URLError(err) ==
    <<[Link("url.Error", "Post") EXCEPT !.netError = TRUE, !.timeout = err[1].timeout]>>
    \o err

FaultCause(f) ==
    CASE f = "canceled" -> ContextCanceled
      [] f = "deadline" -> ContextDeadlineExceeded
      [] f = "client_timeout" -> ClientTimeoutError
      [] OTHER -> ConnectionError

\* encoding/json's errors.
SyntaxError == <<Link("json.SyntaxError", "invalid character")>>
UnmarshalTypeError == <<Link("json.UnmarshalTypeError", "cannot unmarshal")>>
URLParseError == <<Link("url.Error", "parse")>>

\* ---------------------------------------------------------------- request
\* body := requestBody{...} in CallAPI; a nil []reqTool is <<>>.
RequestBody(p) ==
    [Model |-> p.model,
     Input |-> p.query,
     Reasoning |-> [Effort |-> p.effort],
     Text |-> [Verbosity |-> p.verbosity],
     Tools |-> IF p.useWebSearch THEN <<[Type |-> "web_search_preview"]>> ELSE <<>>,
     PreviousResponseID |-> p.previousResponseID]

NoFields == [k \in {} |-> <<>>]

MarshalTools(tools) == [i \in DOMAIN tools |-> [type |-> tools[i].Type]]

\* json.Marshal without the omitempty options: every field is written.
MarshalNoOmitEmpty(b) ==
    [model |-> b.Model,
     input |-> b.Input,
     reasoning |-> [effort |-> b.Reasoning.Effort],
     text |-> [verbosity |-> b.Text.Verbosity],
     tools |-> MarshalTools(b.Tools),
     previous_response_id |-> b.PreviousResponseID]

\* json.Marshal(body) under requestBody's tags: the JSON object as a function
\* from the field names written to their values. omitempty drops an empty
\* slice and an empty string. Marshalling these string fields cannot fail.
Marshal(b) ==
    [model |-> b.Model,
     input |-> b.Input,
     reasoning |-> [effort |-> b.Reasoning.Effort],
     text |-> [verbosity |-> b.Text.Verbosity]]
    @@ (IF Len(b.Tools) = 0 THEN NoFields ELSE [tools |-> MarshalTools(b.Tools)])
    @@ (IF b.PreviousResponseID = "" THEN NoFields
        ELSE [previous_response_id |-> b.PreviousResponseID])

\* The endpoints a call is given; url.Parse rejects the second.
BaseURLs == {defaultBaseURL, "://bad"}
URLParses(u) == u # "://bad"

\* http.Header.Set: the key's values are replaced by the one value.
HeaderSet(h, key, value) == (key :> <<value>>) @@ h

\* The request built without the Content-Type header.
NewRequestNoContentType(p) ==
    [method |-> "POST",
     url |-> p.baseURL,
     header |-> HeaderSet(NoFields, "Authorization", "Bearer " \o p.apiKey),
     body |-> Marshal(RequestBody(p))]

\* http.NewRequestWithContext(ctx, POST, baseURL, buf) and the two req.Header.Set.
NewRequest(p) ==
    [method |-> "POST",
     url |-> p.baseURL,
     header |-> HeaderSet(HeaderSet(NoFields, "Content-Type", "application/json"),
                          "Authorization", "Bearer " \o p.apiKey),
     body |-> Marshal(RequestBody(p))]

\* --------------------------------------------------------------- response
\* The statuses the remote service answers with.
StatusCodes == {101, 200, 299, 300, 401, 500}

\* The outputs of the envelopes the remote service answers with.
OutputSamples ==
    { <<>>,
      <<[Type |-> "message", Content |-> <<[Type |-> "output_text", Text |-> <<"A">>]>>]>>,
      <<[Type |-> "tool_code", Content |-> <<[Type |-> "output_text", Text |-> <<"A">>]>>]>>,
      <<[Type |-> "message", Content |-> <<[Type |-> "output_text", Text |-> <<"A">>],
                                           [Type |-> "image", Text |-> <<"B", "C">>]>>],
        [Type |-> "message", Content |-> <<[Type |-> "output_text", Text |-> <<"B", "C">>]>>]>> }

\* A response body, by its JSON reading: text that is no JSON, the literal
\* null, an array, or an object with the envelope's fields present or not.
JSONObject(text, id, model, effort, output) ==
    [syntax |-> "object", text |-> text, id |-> id, model |-> model,
     effort |-> effort, output |-> output]
NotJSON(text) == [NoBody EXCEPT !.syntax = "invalid", !.text = text]

Bodies ==
    { NotJSON("this is not valid json"),
      NotJSON(""),
      [NoBody EXCEPT !.syntax = "null", !.text = "null"],
      [NoBody EXCEPT !.syntax = "array", !.text = "[1]"],
      JSONObject("{\"error\":\"unauthorized\"}", Absent, Absent, Absent, Absent),
      JSONObject("{\"output\":\"x\"}", Absent, Absent, Absent, JString("x")),
      JSONObject("{\"id\":7,...}", JNumber("7"), JString("m"), JString("e"), JArray(<<>>)) }
    \cup { JSONObject("envelope", JString("resp_1"), JString("gpt-5-mini-2025"),
                      JString("low"), JArray(o)) : o \in OutputSamples }

\* The Go value json.Unmarshal stores for a field: an absent field leaves the zero.
StringField(f) == IF f.t = "string" THEN f.str ELSE ""
ArrayField(f) == IF f.t = "array" THEN f.arr ELSE <<>>
FieldFits(f, type) == f.t \in {"absent", type}

\* json.Unmarshal(bodyBytes, &ar): the error (nil is <<>>) and ar.
Unmarshal(body) ==
    CASE body.syntax = "invalid" -> [err |-> SyntaxError, val |-> ZeroResponse]
      [] body.syntax = "null" -> [err |-> NoError, val |-> ZeroResponse]
      [] body.syntax = "array" -> [err |-> UnmarshalTypeError, val |-> ZeroResponse]
      [] OTHER ->
         IF /\ FieldFits(body.id, "string") /\ FieldFits(body.model, "string")
            /\ FieldFits(body.effort, "string") /\ FieldFits(body.output, "array")
         THEN [err |-> NoError,
               val |-> MkResponse(StringField(body.id), StringField(body.model),
                                  StringField(body.effort), ArrayField(body.output))]
         ELSE [err |-> UnmarshalTypeError, val |-> ZeroResponse]

\* What CallAPI returns: (*apiResponse, error).
Returns(resp, err) == [resp |-> resp, err |-> err]

\* The status test of CallAPI with the upper bound off by one.
CallAPIResultOffByOne(status, body) ==
    IF status < 200 \/ status > 300
    THEN Returns(NilResponse, APIError(status, body))
    ELSE LET ar == Unmarshal(body) IN
         IF ar.err # NoError THEN Returns(NilResponse, Errorf("parse json", ar.err))
         ELSE Returns(PtrTo(ar.val), NoError)

\* CallAPI decoding the body before it looks at the status.
CallAPIResultDecodesFirst(status, body) ==
    LET ar == Unmarshal(body) IN
    IF ar.err # NoError THEN Returns(NilResponse, Errorf("parse json", ar.err))
    ELSE IF status < 200 \/ status >= 300
    THEN Returns(NilResponse, APIError(status, body))
    ELSE Returns(PtrTo(ar.val), NoError)

\* CallAPI from the status test on: api.go lines 63-72.
CallAPIResult(status, body) ==
    IF status < 200 \/ status >= 300
    THEN Returns(NilResponse, APIError(status, body))
    ELSE LET ar == Unmarshal(body) IN
         IF ar.err # NoError THEN Returns(NilResponse, Errorf("parse json", ar.err))
         ELSE Returns(PtrTo(ar.val), NoError)

\* ------------------------------------------------------------------ state
VARIABLES
    test, arg, out,   \* a unit test: the function under test, its argument, its result
    caller,           \* who runs: "test" (a CallAPI test), "mcp" (the tool handler),
                      \* "tool" (the gpt_websearch tool's handler),
                      \* "modes" (HandleWebSearch with web_search modes),
                      \* "cli" (the command line), or "none" in a unit test
    input,            \* what the caller was given
    pc,               \* where the invocation stands
    in,               \* the parameters CallAPI was entered with
    ctxErr,           \* ctx.Err(): "nil", "canceled" or "deadline"
    timerFired,       \* whether http.Client.Timeout has expired
    fault,            \* why the outbound call cannot complete, "none" while it can
    wire,             \* the requests handed to client.Do, in order
    resp,             \* what has arrived of the response
    ret,              \* what CallAPI returned
    result,           \* what the caller ended with
    calls,            \* the tool invocations of a server, each with its own state
    logging           \* the global logger and the goroutines that call it

unitVars == <<test, arg, out>>
progVars == <<caller, input, pc, in, ctxErr, timerFired, fault, wire, resp, ret, result>>
serverVars == <<calls>>
logVars == <<logging>>
vars == <<test, arg, out, caller, input, pc, in, ctxErr, timerFired, fault, wire, resp, ret, result, calls, logging>>

\* The parameters of the CallAPI tests (ctx is the kind of context passed).
TestArgs ==
    [apiKey : {"", "test-key"}, baseURL : BaseURLs, query : {"q"}, model : {"m"},
     effort : {"e"}, verbosity : {"v"}, previousResponseID : {"", "resp_0"},
     timeout : {2}, useWebSearch : BOOLEAN, ctx : {"deadline"}]

\* A value of an argument bag (map[string]interface{}): no entry, or a
\* string, a bool or a number.
NoEntry == [t |-> "absent", s |-> "", b |-> FALSE]
DynString(str) == [t |-> "string", s |-> str, b |-> FALSE]
DynBool(bool) == [t |-> "bool", s |-> "", b |-> bool]
DynNumber == [t |-> "number", s |-> "", b |-> FALSE]

\* v, ok := args[key].(string)
AsString(v) == [val |-> IF v.t = "string" THEN v.s ELSE "", ok |-> v.t = "string"]

\* The invocations of HandleWebSearch: the server's credential and endpoint,
\* the argument bag, and the request's context.
ToolCalls ==
    [apiKey : {"", "test-key"}, baseURL : BaseURLs, ctx : {"cancel"},
     args : [query : {NoEntry, DynNumber, DynString(""), DynString("q")},
             model : {NoEntry, DynString("gpt-5")},
             reasoning_effort : {NoEntry, DynString("high"), DynString("bogus")},
             verbosity : {NoEntry, DynString("low")},
             previous_response_id : {NoEntry, DynString("resp_0")},
             web_search : {NoEntry, DynBool(TRUE), DynBool(FALSE), DynString("no")}]]

\* The invocations of the gpt_websearch tool: the server's credential and
\* endpoint, the arguments of the request, and the request's context.
ToolRequests ==
    [apiKey : {"", "test-key"}, baseURL : {defaultBaseURL}, ctx : {"cancel"},
     args : [query : {NoEntry, DynNumber, DynString(""), DynString("q")},
             model : {NoEntry},
             reasoning_effort : {NoEntry, DynString("high")},
             verbosity : {NoEntry},
             previous_response_id : {NoEntry, DynString("resp_0")},
             web_search : {NoEntry, DynBool(FALSE), DynBool(TRUE)}]]

\* The invocations of the HandleWebSearch that takes web_search as a mode
\* ("auto", "always", "never"): a server with a credential, and an argument
\* bag with the query and the mode.
ModeCalls ==
    [apiKey : {"test-key"}, baseURL : {defaultBaseURL}, ctx : {"cancel"},
     args : [query : {DynString(""), DynString("What is the capital of France?"),
                      DynString("latest news on the election")},
             model : {NoEntry}, reasoning_effort : {NoEntry}, verbosity : {NoEntry},
             previous_response_id : {NoEntry},
             web_search : {NoEntry, DynString(""), DynString("auto"), DynString("always"),
                           DynString("never"), DynString("sometimes"), DynBool(FALSE)}]]

\* strconv.ParseBool and time.ParseDuration (in seconds) on the values the
\* environment and the flags are given here.
ParseBool(v) ==
    CASE v \in {"1", "t", "T", "true", "TRUE", "True"} -> [val |-> TRUE, ok |-> TRUE]
      [] v \in {"0", "f", "F", "false", "FALSE", "False"} -> [val |-> FALSE, ok |-> TRUE]
      [] OTHER -> [val |-> FALSE, ok |-> FALSE]

ParseDuration(v) ==
    CASE v = "0" -> [val |-> 0, ok |-> TRUE]
      [] v = "2s" -> [val |-> 2, ok |-> TRUE]
      [] v = "45s" -> [val |-> 45, ok |-> TRUE]
      [] OTHER -> [val |-> 0, ok |-> FALSE]

\* The runs of the command line: the environment, the flags given (NoEntry:
\* the flag is not on the command line), the positional arguments, and the
\* context runCLI makes.
CLIRuns ==
    [env : [OPENAI_API_KEY : {"", "test-key"}, QUESTION : {"", "envq"}, MODEL : {""},
            EFFORT : {"", "high", "bogus"}, TIMEOUT : {"", "0", "2s", "abc"},
            SHOW_ALL : {"", "true"}],
     flags : [q : {NoEntry, DynString("fq")},
              timeout : {NoEntry, DynString("0"), DynString("45s")},
              effort : {NoEntry, DynString("low")}],
     argv : {<<>>, <<"pq">>},
     ctx : {"background"}]

NoArgs ==
    [apiKey |-> "", baseURL |-> "", query |-> "", model |-> "", effort |-> "",
     verbosity |-> "", previousResponseID |-> "", timeout |-> 0,
     useWebSearch |-> FALSE, ctx |-> "background"]

\* CallAPI's parameters once it is entered, and before.
Called(p) == [called |-> TRUE, args |-> p]
NotCalled == [called |-> FALSE, args |-> NoArgs]

NoResponse == [got |-> "none", status |-> 0, body |-> NoBody]
NoResult == [kind |-> "none"]
NotReturned == Returns(NilResponse, NoError)

\* The global logger of logging.go: var logger *slog.Logger, levelVar, once.
\* Each goroutine is at a place in the call it makes (pc); synced says that
\* it has returned from once.Do, which orders it after the construction;
\* racy says that it has read logger without that order; view is the logger
\* its logging call goes on to use.
LogProcs == 1..MaxLoggers
LogProcIdle ==
    [pc |-> "idle", verbose |-> FALSE, then |-> "idle", synced |-> FALSE,
     racy |-> FALSE, view |-> "none"]
LogIdle ==
    [logger |-> "nil", built |-> 0, level |-> "unset", once |-> "idle",
     ncalls |-> 0, raced |-> FALSE, used |-> {},
     procs |-> [p \in LogProcs |-> LogProcIdle]]

\* Nothing of the program runs (the state of a unit test).
ProgIdle ==
    /\ caller = "none" /\ input = NoArgs /\ pc = "idle" /\ in = NotCalled
    /\ ctxErr = "nil" /\ timerFired = FALSE /\ fault = "none"
    /\ wire = <<>> /\ resp = NoResponse /\ ret = NotReturned
    /\ result = NoResult
    /\ calls = <<>>
    /\ logging = LogIdle

NotRun == [done |-> FALSE, panic |-> FALSE, val |-> <<>>]
UnitIdle == test = "none" /\ arg = <<>> /\ out = NotRun

Init ==
    /\ UnitIdle
    /\ \/ caller = "test" /\ input \in TestArgs
       \/ caller = "mcp" /\ input \in ToolCalls
       \/ caller = "tool" /\ input \in ToolRequests
       \/ caller = "modes" /\ input \in ModeCalls
       \/ caller = "cli" /\ input \in CLIRuns
    /\ pc = "idle" /\ in = NotCalled
    /\ ctxErr = "nil" /\ timerFired = FALSE /\ fault = "none"
    /\ wire = <<>> /\ resp = NoResponse /\ ret = NotReturned
    /\ result = NoResult
    /\ calls = <<>>
    /\ logging = LogIdle

InFlight == {"awaitHeaders", "readBody"}

\* ---------------------------------------------------------------- CallAPI
\* CallAPI entered without the credential check.
CallAPIEnterNoKeyCheck(p) ==
    /\ in' = Called(p)
    /\ IF ~URLParses(p.baseURL)
       THEN /\ ret' = Returns(NilResponse, Errorf("build request", URLParseError))
            /\ pc' = "returned"
            /\ UNCHANGED <<wire, fault>>
       ELSE /\ wire' = Append(wire, NewRequest(p))
            /\ pc' = "awaitHeaders"
            /\ fault' = (IF ctxErr = "nil" THEN "none" ELSE ctxErr)
            /\ UNCHANGED ret
    /\ UNCHANGED <<ctxErr, timerFired, resp>>

\* CallAPI from its entry to client.Do(req): api.go lines 16-52. A context
\* that is already done fails the call as soon as it is made.
CallAPIEnter(p) ==
    /\ in' = Called(p)
    /\ IF p.apiKey = ""
       THEN /\ ret' = Returns(NilResponse, ErrNoAPIKey)
            /\ pc' = "returned"
            /\ UNCHANGED <<wire, fault>>
       ELSE IF ~URLParses(p.baseURL)
       THEN /\ ret' = Returns(NilResponse, Errorf("build request", URLParseError))
            /\ pc' = "returned"
            /\ UNCHANGED <<wire, fault>>
       ELSE /\ wire' = Append(wire, NewRequest(p))
            /\ pc' = "awaitHeaders"
            /\ fault' = (IF ctxErr = "nil" THEN "none" ELSE ctxErr)
            /\ UNCHANGED ret
    /\ UNCHANGED <<ctxErr, timerFired, resp>>

\* A test calls CallAPI(ctx, apiKey, base, "q", "m", "e", "v", prev, timeout, web).
TestCallAPI ==
    /\ caller = "test" /\ pc = "idle"
    /\ CallAPIEnter(input)
    /\ UNCHANGED <<unitVars, serverVars, logVars, caller, input, result>>

\* -------------------------------------------------------- HandleWebSearch
\* type WebSearchResult struct: the fields left out of a literal are zero.
ZeroResult ==
    [Success |-> FALSE, Answer |-> <<>>, Query |-> "", Model |-> "", Effort |-> "",
     TimeoutUsed |-> "", ID |-> "", RequestedModel |-> "", RequestedEffort |-> "",
     WebSearchUsed |-> FALSE, PreviousResponseID |-> "", Error |-> ""]

\* What HandleWebSearch returns: (*WebSearchResult, error).
ToolReturns(res, err) == [kind |-> "mcp", nil |-> FALSE, res |-> res, err |-> err]
\* A failure returned together with a result: return &WebSearchResult{}, err.
ToolFailsWithResult(err) == [kind |-> "mcp", nil |-> FALSE, res |-> ZeroResult, err |-> err]
ToolFails(err) == [kind |-> "mcp", nil |-> TRUE, res |-> ZeroResult, err |-> err]

\* HandleWebSearch's parameters with the timeout resolved from the effort as
\* given, before it is validated.
ToolParamsTimeoutFirst(i) ==
    LET model == AsString(i.args.model).val
        effort == validateEffort(AsString(i.args.reasoning_effort).val)
        verbosity == validateVerbosity(AsString(i.args.verbosity).val)
    IN [apiKey |-> i.apiKey,
        baseURL |-> i.baseURL,
        query |-> AsString(i.args.query).val,
        model |-> IF model = "" THEN defaultModel ELSE model,
        effort |-> effort,
        verbosity |-> verbosity,
        previousResponseID |-> AsString(i.args.previous_response_id).val,
        timeout |-> getTimeoutForEffort(AsString(i.args.reasoning_effort).val),
        useWebSearch |-> IF i.args.web_search.t = "bool" THEN i.args.web_search.b ELSE TRUE,
        ctx |-> i.ctx]

\* HandleWebSearch's parameter extraction: api.go lines 110-147.
ToolParams(i) ==
    LET model == AsString(i.args.model).val
        effort == validateEffort(AsString(i.args.reasoning_effort).val)
        verbosity == validateVerbosity(AsString(i.args.verbosity).val)
    IN [apiKey |-> i.apiKey,
        baseURL |-> i.baseURL,
        query |-> AsString(i.args.query).val,
        model |-> IF model = "" THEN defaultModel ELSE model,
        effort |-> effort,
        verbosity |-> verbosity,
        previousResponseID |-> AsString(i.args.previous_response_id).val,
        timeout |-> getTimeoutForEffort(effort),
        useWebSearch |-> IF i.args.web_search.t = "bool" THEN i.args.web_search.b ELSE TRUE,
        ctx |-> i.ctx]

\* What HandleWebSearch returns without a query: api.go lines 114-125.
MissingQuery(args) ==
    ToolReturns(
        [ZeroResult EXCEPT !.Success = FALSE,
                           !.Error = "Please provide a query to search for",
                           !.Query = AsString(args.query).val,
                           !.WebSearchUsed = FALSE,
                           !.PreviousResponseID = AsString(args.previous_response_id).val],
        NoError)

\* HandleWebSearch calling CallAPI whatever the query is.
HandleWebSearchNoQueryCheck ==
    /\ caller = "mcp" /\ pc = "idle"
    /\ CallAPIEnter(ToolParams(input))
    /\ UNCHANGED <<unitVars, serverVars, logVars, caller, input, result>>

\* HandleWebSearch up to its call of CallAPI: api.go lines 108-150.
HandleWebSearch ==
    /\ caller = "mcp" /\ pc = "idle"
    /\ LET query == AsString(input.args.query) IN
       IF ~query.ok \/ query.val = ""
       THEN /\ result' = MissingQuery(input.args)
            /\ pc' = "done"
            /\ UNCHANGED <<in, ctxErr, timerFired, fault, wire, resp, ret>>
       ELSE /\ CallAPIEnter(ToolParams(input))
            /\ UNCHANGED result
    /\ UNCHANGED <<unitVars, serverVars, logVars, caller, input>>

\* The success result filled from the request instead of the response.
ToolResultEchoesRequest(p, r) ==
    IF r.err # NoError THEN ToolFails(r.err)
    ELSE ToolReturns(
            [ZeroResult EXCEPT !.Success = TRUE,
                               !.Answer = ExtractAnswer(r.resp).val,
                               !.Query = p.query,
                               !.Model = p.model,
                               !.Effort = p.effort,
                               !.TimeoutUsed = DurationString(p.timeout),
                               !.ID = r.resp.val.ID,
                               !.RequestedModel = p.model,
                               !.RequestedEffort = p.effort,
                               !.WebSearchUsed = p.useWebSearch,
                               !.PreviousResponseID = p.previousResponseID],
            NoError)

\* HandleWebSearch after CallAPI returned (p: the parameters passed, r: what
\* came back): api.go lines 151-188.
ToolResult(p, r) ==
    IF r.err # NoError THEN ToolFails(r.err)
    ELSE LET answer == ExtractAnswer(r.resp).val IN
         IF answer = <<>>
         THEN ToolReturns(
                [ZeroResult EXCEPT !.Success = FALSE,
                                   !.Error = "No answer found in response",
                                   !.Query = p.query,
                                   !.RequestedModel = p.model,
                                   !.RequestedEffort = p.effort,
                                   !.WebSearchUsed = p.useWebSearch,
                                   !.TimeoutUsed = DurationString(p.timeout),
                                   !.PreviousResponseID = p.previousResponseID],
                NoError)
         ELSE ToolReturns(
                [ZeroResult EXCEPT !.Success = TRUE,
                                   !.Answer = answer,
                                   !.Query = p.query,
                                   !.Model = r.resp.val.Model,
                                   !.Effort = r.resp.val.Reasoning.Effort,
                                   !.TimeoutUsed = DurationString(p.timeout),
                                   !.ID = r.resp.val.ID,
                                   !.RequestedModel = p.model,
                                   !.RequestedEffort = p.effort,
                                   !.WebSearchUsed = p.useWebSearch,
                                   !.PreviousResponseID = p.previousResponseID],
                NoError)

HandleWebSearchReturn ==
    /\ caller = "mcp" /\ pc = "returned"
    /\ result' = ToolResult(in.args, ret)
    /\ pc' = "done"
    /\ UNCHANGED <<unitVars, serverVars, logVars, caller, input, in, ctxErr, timerFired, fault, wire, resp, ret>>

\* -------------------------------------------------------- webSearchHandler
\* request.RequireString(key): the string, or an error when there is no such
\* argument or it is no string.
RequireString(args, key) ==
    CASE args[key].t = "string" -> [val |-> args[key].s, err |-> NoError]
      [] args[key].t = "absent" ->
            [val |-> "", err |-> <<Link("errors.errorString", "required argument \"" \o key \o "\" not found")>>]
      [] OTHER ->
            [val |-> "", err |-> <<Link("errors.errorString", "argument \"" \o key \o "\" is not a string")>>]

\* request.GetString(key, defaultValue)
GetString(args, key, defaultValue) ==
    IF args[key].t = "string" THEN args[key].s ELSE defaultValue

\* json.Marshal of a WebSearchResult: answer, id, previous_response_id and
\* error are left out when empty.
MarshalResult(res) ==
    [success |-> res.Success, query |-> res.Query, model |-> res.Model,
     effort |-> res.Effort, timeout_used |-> res.TimeoutUsed,
     requested_model |-> res.RequestedModel, requested_effort |-> res.RequestedEffort,
     web_search_used |-> res.WebSearchUsed]
    @@ (IF res.Answer # <<>> THEN [answer |-> res.Answer] ELSE NoFields)
    @@ (IF res.ID # "" THEN [id |-> res.ID] ELSE NoFields)
    @@ (IF res.PreviousResponseID # ""
        THEN [previous_response_id |-> res.PreviousResponseID] ELSE NoFields)
    @@ (IF res.Error # "" THEN [error |-> res.Error] ELSE NoFields)

\* What the handler returns, (*mcp.CallToolResult, error):
\* mcp.NewToolResultError(err.Error()), nil and mcp.NewToolResultText(json), nil.
NewToolResultError(err) ==
    [kind |-> "tool", isError |-> TRUE, message |-> err, json |-> NoFields, err |-> NoError]
NewToolResultText(json) ==
    [kind |-> "tool", isError |-> FALSE, message |-> NoError, json |-> json, err |-> NoError]

\* args := map[string]interface{}{...}: mcp_server.go lines 194-215. The bag
\* has the five keys written there, and no "web_search".
HandlerArgs(args) ==
    [query |-> DynString(RequireString(args, "query").val),
     model |-> DynString(GetString(args, "model", defaultModel)),
     reasoning_effort |-> DynString(GetString(args, "reasoning_effort", defaultEffort)),
     verbosity |-> DynString(GetString(args, "verbosity", defaultVerbosity)),
     previous_response_id |-> DynString(GetString(args, "previous_response_id", "")),
     web_search |-> NoEntry]

\* The handler's result for what HandleWebSearch returned: lines 217-250.
HandlerResult(r) ==
    IF r.err # NoError THEN NewToolResultError(r.err)
    ELSE NewToolResultText(MarshalResult(r.res))

\* The handler passing a failure of HandleWebSearch on as its own error.
webSearchHandlerReturnRaises ==
    /\ caller = "tool" /\ pc = "returned"
    /\ result' = [HandlerResult(ToolResult(in.args, ret)) EXCEPT !.err = ret.err]
    /\ pc' = "done"
    /\ UNCHANGED <<unitVars, serverVars, logVars, caller, input, in, ctxErr, timerFired, fault, wire, resp, ret>>

\* webSearchHandler up to CallAPI inside HandleWebSearch: lines 176-217.
webSearchHandler ==
    /\ caller = "tool" /\ pc = "idle"
    /\ LET query == RequireString(input.args, "query")
           args == HandlerArgs(input.args)
       IN
       IF query.err # NoError
       THEN /\ result' = NewToolResultError(query.err)
            /\ pc' = "done"
            /\ UNCHANGED <<in, ctxErr, timerFired, fault, wire, resp, ret>>
       ELSE IF query.val = ""
       THEN /\ result' = HandlerResult(MissingQuery(args))
            /\ pc' = "done"
            /\ UNCHANGED <<in, ctxErr, timerFired, fault, wire, resp, ret>>
       ELSE /\ CallAPIEnter(ToolParams([input EXCEPT !.args = args]))
            /\ UNCHANGED result
    /\ UNCHANGED <<unitVars, serverVars, logVars, caller, input>>

\* webSearchHandler after CallAPI returned inside HandleWebSearch.
webSearchHandlerReturn ==
    /\ caller = "tool" /\ pc = "returned"
    /\ result' = HandlerResult(ToolResult(in.args, ret))
    /\ pc' = "done"
    /\ UNCHANGED <<unitVars, serverVars, logVars, caller, input, in, ctxErr, timerFired, fault, wire, resp, ret>>

\* ---------------------------------------- HandleWebSearch, web_search modes
\* webSearchMode, _ := args["web_search"].(string), "auto" when empty.
WebSearchMode(i) ==
    IF AsString(i.args.web_search).val = "" THEN "auto" ELSE AsString(i.args.web_search).val

\* The flag with the classifier consulted in every mode.
UseWebSearchClassifiedAlways(webSearchMode, query) == ShouldUseWebSearch(query)

\* switch webSearchMode: the flag for the modes "always", "never" and "auto".
UseWebSearch(webSearchMode, query) ==
    CASE webSearchMode = "always" -> TRUE
      [] webSearchMode = "never" -> FALSE
      [] webSearchMode = "auto" -> ShouldUseWebSearch(query)

\* The result struct of this HandleWebSearch has one more field.
WithMode(r, webSearchMode) ==
    [r EXCEPT !.res = [WebSearchMode |-> IF r.nil THEN "" ELSE webSearchMode] @@ r.res]

ModeParams(i) ==
    [ToolParams(i) EXCEPT
        !.useWebSearch = UseWebSearch(WebSearchMode(i), AsString(i.args.query).val)]

\* HandleWebSearch up to its call of CallAPI: errors.go lines 339-402.
HandleWebSearchByMode ==
    /\ caller = "modes" /\ pc = "idle"
    /\ LET query == AsString(input.args.query)
           previousResponseID == AsString(input.args.previous_response_id).val
       IN
       IF ~query.ok \/ query.val = ""
       THEN /\ result' = WithMode(ToolReturns(
                    [ZeroResult EXCEPT !.Error = "Please provide a query to search for",
                                       !.Query = query.val,
                                       !.PreviousResponseID = previousResponseID],
                    NoError), "auto")
            /\ pc' = "done"
            /\ UNCHANGED <<in, ctxErr, timerFired, fault, wire, resp, ret>>
       ELSE IF WebSearchMode(input) \notin {"always", "never", "auto"}
       THEN /\ result' = WithMode(ToolReturns(
                    [ZeroResult EXCEPT !.Error = "Invalid web_search mode: "
                                            \o WebSearchMode(input)
                                            \o " (use 'auto', 'always', or 'never')",
                                       !.Query = query.val,
                                       !.PreviousResponseID = previousResponseID],
                    NoError), WebSearchMode(input))
            /\ pc' = "done"
            /\ UNCHANGED <<in, ctxErr, timerFired, fault, wire, resp, ret>>
       ELSE /\ CallAPIEnter(ModeParams(input))
            /\ UNCHANGED result
    /\ UNCHANGED <<unitVars, serverVars, logVars, caller, input>>

\* HandleWebSearch after CallAPI returned: errors.go lines 403-442.
HandleWebSearchByModeReturn ==
    /\ caller = "modes" /\ pc = "returned"
    /\ result' = WithMode(ToolResult(in.args, ret), WebSearchMode(input))
    /\ pc' = "done"
    /\ UNCHANGED <<unitVars, serverVars, logVars, caller, input, in, ctxErr, timerFired, fault, wire, resp, ret>>

\* ----------------------------------------------------------------- runCLI
\* func loadEnvConfig() (EnvConfig, error)
ZeroEnvConfig ==
    [Question |-> "", Model |-> "", Effort |-> "", ShowAll |-> FALSE, HasShowAll |-> FALSE,
     Timeout |-> 0, HasTimeout |-> FALSE, APIKey |-> ""]

\* loadEnvConfig failing on a SHOW_ALL or TIMEOUT value that does not parse.
loadEnvConfigStrict(env) ==
    LET b == ParseBool(env.SHOW_ALL)
        d == ParseDuration(env.TIMEOUT)
    IN IF \/ env.OPENAI_API_KEY = ""
          \/ env.SHOW_ALL # "" /\ ~b.ok
          \/ env.TIMEOUT # "" /\ ~d.ok
       THEN [cfg |-> ZeroEnvConfig, err |-> ErrNoAPIKey]
       ELSE [cfg |-> [Question |-> env.QUESTION, Model |-> env.MODEL, Effort |-> env.EFFORT,
                      ShowAll |-> (env.SHOW_ALL # "" /\ b.val),
                      HasShowAll |-> env.SHOW_ALL # "",
                      Timeout |-> d.val,
                      HasTimeout |-> env.TIMEOUT # "",
                      APIKey |-> env.OPENAI_API_KEY],
             err |-> NoError]

loadEnvConfig(env) ==
    LET b == ParseBool(env.SHOW_ALL)
        d == ParseDuration(env.TIMEOUT)
        cfg == [Question |-> env.QUESTION, Model |-> env.MODEL, Effort |-> env.EFFORT,
                ShowAll |-> (env.SHOW_ALL # "" /\ b.ok /\ b.val),
                HasShowAll |-> (env.SHOW_ALL # "" /\ b.ok),
                Timeout |-> (IF env.TIMEOUT # "" /\ d.ok THEN d.val ELSE 0),
                HasTimeout |-> (env.TIMEOUT # "" /\ d.ok),
                APIKey |-> env.OPENAI_API_KEY]
    IN IF env.OPENAI_API_KEY = ""
       THEN [cfg |-> ZeroEnvConfig, err |-> ErrNoAPIKey]
       ELSE [cfg |-> cfg, err |-> NoError]

\* How the process ends: fail(code, msg) writes msg (a literal, or an error's
\* text) to stderr and exits with code; a normal return exits with 0 after
\* printing the raw response or the answer.
Fail(code, msg, err) ==
    [kind |-> "cli", exit |-> code, printed |-> "none", answer |-> <<>>,
     msg |-> msg, err |-> err]
Exit0(printed, answer) ==
    [kind |-> "cli", exit |-> 0, printed |-> printed, answer |-> answer,
     msg |-> "", err |-> NoError]

\* The question runCLI settles on: part_000 lines 132-144.
CLIQuestion(i, cfg) ==
    IF i.flags.q.t # "absent" THEN i.flags.q.s
    ELSE IF i.argv # <<>> THEN i.argv[1]
    ELSE cfg.Question

\* The parameters of runCLI with the timeout always taken from the effort.
CLIParamsEffortTimeout(i) ==
    LET cfg == loadEnvConfig(i.env).cfg
        effortDefault == IF cfg.Effort # "" THEN cfg.Effort ELSE defaultEffort
        effort == validateEffort(IF i.flags.effort.t # "absent" THEN i.flags.effort.s
                                 ELSE effortDefault)
    IN [apiKey |-> cfg.APIKey,
        baseURL |-> defaultBaseURL,
        query |-> CLIQuestion(i, cfg),
        model |-> IF cfg.Model # "" THEN cfg.Model ELSE defaultModel,
        effort |-> effort,
        verbosity |-> validateVerbosity(defaultVerbosity),
        previousResponseID |-> "",
        timeout |-> getTimeoutForEffort(effort),
        useWebSearch |-> TRUE,
        ctx |-> i.ctx]

\* The parameters runCLI passes to CallAPI: part_000 lines 96-167.
CLIParams(i) ==
    LET cfg == loadEnvConfig(i.env).cfg
        effortDefault == IF cfg.Effort # "" THEN cfg.Effort ELSE defaultEffort
        effort == validateEffort(IF i.flags.effort.t # "absent" THEN i.flags.effort.s
                                 ELSE effortDefault)
        timeoutDefault == IF cfg.HasTimeout THEN cfg.Timeout
                          ELSE getTimeoutForEffort(effortDefault)
        timeoutFlagSet == i.flags.timeout.t # "absent"
        timeout == IF timeoutFlagSet THEN ParseDuration(i.flags.timeout.s).val
                   ELSE timeoutDefault
    IN [apiKey |-> cfg.APIKey,
        baseURL |-> defaultBaseURL,
        query |-> CLIQuestion(i, cfg),
        model |-> IF cfg.Model # "" THEN cfg.Model ELSE defaultModel,
        effort |-> effort,
        verbosity |-> validateVerbosity(defaultVerbosity),
        previousResponseID |-> "",
        timeout |-> IF ~cfg.HasTimeout /\ ~timeoutFlagSet
                    THEN getTimeoutForEffort(effort) ELSE timeout,
        useWebSearch |-> TRUE,
        ctx |-> i.ctx]

\* runCLI up to its call of CallAPI: part_000 lines 88-167.
runCLI ==
    /\ caller = "cli" /\ pc = "idle"
    /\ LET env == loadEnvConfig(input.env) IN
       IF env.err # NoError
       THEN /\ result' = Fail(2, "", env.err)
            /\ pc' = "done"
            /\ UNCHANGED <<in, ctxErr, timerFired, fault, wire, resp, ret>>
       ELSE IF CLIQuestion(input, env.cfg) = ""
       THEN /\ result' = Fail(2, "please provide a question to ask (use -q flag or positional argument)", NoError)
            /\ pc' = "done"
            /\ UNCHANGED <<in, ctxErr, timerFired, fault, wire, resp, ret>>
       ELSE /\ CallAPIEnter(CLIParams(input))
            /\ UNCHANGED result
    /\ UNCHANGED <<unitVars, serverVars, logVars, caller, input>>

\* runCLI after CallAPI returned, without the exit for a response with no text.
CLIResultPrintsEmpty(i, r) ==
    IF r.err # NoError THEN Fail(2, "", r.err)
    ELSE IF loadEnvConfig(i.env).cfg.ShowAll THEN Exit0("raw", <<>>)
    ELSE Exit0("answer", ExtractAnswer(r.resp).val)

\* runCLI after CallAPI returned: part_000 lines 168-184.
CLIResult(i, r) ==
    IF r.err # NoError THEN Fail(2, "", r.err)
    ELSE IF loadEnvConfig(i.env).cfg.ShowAll THEN Exit0("raw", <<>>)
    ELSE LET answer == ExtractAnswer(r.resp).val IN
         IF answer = <<>> THEN Fail(3, "no answer found in response", NoError)
         ELSE Exit0("answer", answer)

runCLIReturn ==
    /\ caller = "cli" /\ pc = "returned"
    /\ result' = CLIResult(input, ret)
    /\ pc' = "done"
    /\ UNCHANGED <<unitVars, serverVars, logVars, caller, input, in, ctxErr, timerFired, fault, wire, resp, ret>>

\* client.Do fails and, against the code, the request is sent again.
CallAPIDoFailsRetry ==
    /\ pc = "awaitHeaders" /\ fault # "none"
    /\ Len(wire) < 3
    /\ wire' = Append(wire, NewRequest(in.args))
    /\ fault' = (IF ctxErr = "nil" THEN "none" ELSE ctxErr)
    /\ UNCHANGED <<unitVars, serverVars, logVars, caller, input, pc, in, ctxErr, timerFired, resp, ret, result>>

\* resp, err := client.Do(req); err != nil: api.go lines 52-55.
CallAPIDoFails ==
    /\ pc = "awaitHeaders" /\ fault # "none"
    /\ ret' = Returns(NilResponse, Errorf("http request", URLError(FaultCause(fault))))
    /\ pc' = "returned"
    /\ UNCHANGED <<unitVars, serverVars, logVars, caller, input, in, ctxErr, timerFired, fault, wire, resp, result>>

\* bodyBytes, err := io.ReadAll(resp.Body); err != nil: api.go lines 58-61.
CallAPIReadFails ==
    /\ pc = "readBody" /\ fault # "none"
    /\ ret' = Returns(NilResponse, Errorf("read response", FaultCause(fault)))
    /\ pc' = "returned"
    /\ UNCHANGED <<unitVars, serverVars, logVars, caller, input, in, ctxErr, timerFired, fault, wire, resp, result>>

\* The body is read: the status test, the decoding and the return.
CallAPIFinish ==
    /\ pc = "gotBody"
    /\ ret' = CallAPIResult(resp.status, resp.body)
    /\ pc' = "returned"
    /\ UNCHANGED <<unitVars, serverVars, logVars, caller, input, in, ctxErr, timerFired, fault, wire, resp, result>>

\* ------------------------------------------------------------ environment
\* The fault an event causes: the first one of a call in flight stands.
FaultAfter(f) == IF pc \in InFlight /\ fault = "none" THEN f ELSE fault

\* The caller cancels the context.
CtxCancel ==
    /\ pc \in {"idle"} \cup InFlight
    /\ input.ctx \in {"cancel", "deadline"} /\ ctxErr = "nil"
    /\ ctxErr' = "canceled"
    /\ fault' = FaultAfter("canceled")
    /\ UNCHANGED <<unitVars, serverVars, logVars, caller, input, pc, in, timerFired, wire, resp, ret, result>>

\* The context's deadline passes.
CtxDeadline ==
    /\ pc \in {"idle"} \cup InFlight
    /\ input.ctx = "deadline" /\ ctxErr = "nil"
    /\ ctxErr' = "deadline"
    /\ fault' = FaultAfter("deadline")
    /\ UNCHANGED <<unitVars, serverVars, logVars, caller, input, pc, in, timerFired, wire, resp, ret, result>>

\* The client's timer expires and, against the code, the call goes on.
ClientTimerNoAbort ==
    /\ pc \in InFlight
    /\ in.args.timeout > 0 /\ ~timerFired
    /\ timerFired' = TRUE
    /\ UNCHANGED <<unitVars, serverVars, logVars, caller, input, pc, in, ctxErr, fault, wire, resp, ret, result>>

\* client := &http.Client{Timeout: timeout}: a positive Timeout expires; zero
\* or less means no timeout.
ClientTimer ==
    /\ pc \in InFlight
    /\ in.args.timeout > 0 /\ ~timerFired
    /\ timerFired' = TRUE
    /\ fault' = FaultAfter("client_timeout")
    /\ UNCHANGED <<unitVars, serverVars, logVars, caller, input, pc, in, ctxErr, wire, resp, ret, result>>

\* The connection is refused or reset.
ConnFail ==
    /\ pc \in InFlight /\ fault = "none"
    /\ fault' = "conn"
    /\ UNCHANGED <<unitVars, serverVars, logVars, caller, input, pc, in, ctxErr, timerFired, wire, resp, ret, result>>

\* The status line and headers arrive: client.Do returns the response.
ServerHeaders(status) ==
    /\ pc = "awaitHeaders" /\ fault = "none"
    /\ resp' = [got |-> "headers", status |-> status, body |-> NoBody]
    /\ pc' = "readBody"
    /\ UNCHANGED <<unitVars, serverVars, logVars, caller, input, in, ctxErr, timerFired, fault, wire, ret, result>>

\* The whole body arrives: io.ReadAll returns it.
ServerBody(body) ==
    /\ pc = "readBody" /\ fault = "none"
    /\ resp' = [resp EXCEPT !.got = "all", !.body = body]
    /\ pc' = "gotBody"
    /\ UNCHANGED <<unitVars, serverVars, logVars, caller, input, in, ctxErr, timerFired, fault, wire, ret, result>>

Next ==
    \/ TestCallAPI
    \/ HandleWebSearch
    \/ HandleWebSearchReturn
    \/ webSearchHandler
    \/ webSearchHandlerReturn
    \/ HandleWebSearchByMode
    \/ HandleWebSearchByModeReturn
    \/ runCLI
    \/ runCLIReturn
    \/ CallAPIDoFails
    \/ CallAPIReadFails
    \/ CallAPIFinish
    \/ CtxCancel
    \/ CtxDeadline
    \/ ClientTimer
    \/ ConnFail
    \/ \E status \in StatusCodes : ServerHeaders(status)
    \/ \E body \in Bodies : ServerBody(body)

Spec == Init /\ [][Next]_vars

\* The steps the program itself takes, which the Go runtime runs whenever
\* they can be taken.
ProgramStep ==
    \/ TestCallAPI
    \/ HandleWebSearch
    \/ HandleWebSearchReturn
    \/ webSearchHandler
    \/ webSearchHandlerReturn
    \/ HandleWebSearchByMode
    \/ HandleWebSearchByModeReturn
    \/ runCLI
    \/ runCLIReturn
    \/ CallAPIDoFails
    \/ CallAPIReadFails
    \/ CallAPIFinish

\* Time passes: a running client timer expires and a context's deadline
\* arrives. Nothing obliges the server to answer, the connection to break or
\* the caller to cancel.
FairSpec ==
    /\ Spec
    /\ WF_vars(ProgramStep)
    /\ WF_vars(ClientTimer)
    /\ WF_vars(CtxDeadline)

\* CallAPI has returned.
Returned == in.called /\ pc \in {"returned", "done"}

\* ------------------------------------------------------------- the server
\* One server process handles tool invocations, each in its own goroutine
\* that runs webSearchHandler. The handler and the functions it calls keep
\* everything in parameters and local variables, so each invocation has its
\* own record: the request's arguments (req), the request sent (sent), the
\* response or the fault met (resp, fault), and the handler's result.
ServerConfig == [apiKey |-> "test-key", baseURL |-> defaultBaseURL, ctx |-> "cancel"]

NoCall ==
    [st |-> "none", req |-> HandlerArgs([query |-> NoEntry, model |-> NoEntry,
                                         reasoning_effort |-> NoEntry, verbosity |-> NoEntry,
                                         previous_response_id |-> NoEntry]),
     sent |-> <<>>, resp |-> NoResponse, fault |-> "none", result |-> NoResult]

\* The ids the client has been given in results so far.
KnownIDs ==
    {calls[k].result.json.id :
        k \in {j \in DOMAIN calls : /\ calls[j].st = "done"
                                    /\ ~calls[j].result.isError
                                    /\ "id" \in DOMAIN calls[j].result.json}}

\* The arguments of an invocation: the client may pass an id it was given.
SessionRequests ==
    [query : {DynString("q1"), DynString("q2")},
     model : {NoEntry}, reasoning_effort : {NoEntry}, verbosity : {NoEntry},
     previous_response_id : {NoEntry, DynString("resp_0")} \cup {DynString(id) : id \in KnownIDs},
     web_search : {NoEntry}]

\* What the remote service answers: an envelope with an id of its own
\* choosing, with or without text, or a refusal.
SessionStatuses == {200, 500}
SessionBodies ==
    {JSONObject("envelope", JString(id), JString("gpt-5-mini-2025"), JString("low"), JArray(o)) :
        id \in {"resp_1", "resp_2"},
        o \in {<<>>, <<[Type |-> "message",
                        Content |-> <<[Type |-> "output_text", Text |-> <<"A">>]>>]>>}}

\* The handler's argument bag with the id of the latest result put in when
\* the request has none.
SessionArgsRemembering(k) ==
    LET args == HandlerArgs(calls[k].req) IN
    IF args.previous_response_id.s = "" /\ KnownIDs # {}
    THEN [args EXCEPT !.previous_response_id = DynString(CHOOSE id \in KnownIDs : TRUE)]
    ELSE args

\* The argument bag the handler of invocation k builds: from its own request.
SessionArgs(k) == HandlerArgs(calls[k].req)

\* The parameters of CallAPI taken from the latest invocation received.
SessionParamsShared(k) ==
    LET latest == CHOOSE j \in DOMAIN calls : \A i \in DOMAIN calls : i <= j IN
    ToolParams(input @@ [args |-> HandlerArgs(calls[latest].req)])

\* The parameters HandleWebSearch passes to CallAPI in invocation k.
SessionParams(k) == ToolParams(input @@ [args |-> SessionArgs(k)])

\* A client invokes the tool.
Invoke(req) ==
    /\ caller = "server"
    /\ Len(calls) < MaxCalls
    /\ calls' = Append(calls, [NoCall EXCEPT !.st = "idle", !.req = req])
    /\ UNCHANGED <<unitVars, logVars, progVars>>

\* webSearchHandler of invocation k up to client.Do inside CallAPI.
HandlerBegins(k) ==
    /\ caller = "server"
    /\ calls[k].st = "idle"
    /\ LET query == RequireString(calls[k].req, "query")
           p == SessionParams(k)
       IN calls' = [calls EXCEPT ![k] =
            IF query.err # NoError
            THEN [@ EXCEPT !.st = "done", !.result = NewToolResultError(query.err)]
            ELSE IF query.val = ""
            THEN [@ EXCEPT !.st = "done", !.result = HandlerResult(MissingQuery(SessionArgs(k)))]
            ELSE IF p.apiKey = ""
            THEN [@ EXCEPT !.st = "done",
                           !.result = HandlerResult(ToolResult(p, Returns(NilResponse, ErrNoAPIKey)))]
            ELSE [@ EXCEPT !.st = "inflight", !.sent = <<NewRequest(p)>>]]
    /\ UNCHANGED <<unitVars, logVars, progVars>>

\* The response of invocation k arrives; CallAPI, HandleWebSearch and the
\* handler return.
HandlerReturns(k, status, body) ==
    /\ caller = "server"
    /\ calls[k].st = "inflight"
    /\ calls' = [calls EXCEPT ![k] =
            [@ EXCEPT !.st = "done",
                      !.resp = [got |-> "all", status |-> status, body |-> body],
                      !.result = HandlerResult(ToolResult(SessionParams(k),
                                                          CallAPIResult(status, body)))]]
    /\ UNCHANGED <<unitVars, logVars, progVars>>

\* The call of invocation k fails in transport; the handler returns.
HandlerFails(k, f) ==
    /\ caller = "server"
    /\ calls[k].st = "inflight"
    /\ calls' = [calls EXCEPT ![k] =
            [@ EXCEPT !.st = "done",
                      !.fault = f,
                      !.result = HandlerResult(ToolResult(SessionParams(k),
                            Returns(NilResponse,
                                    Errorf("http request", URLError(FaultCause(f))))))]]
    /\ UNCHANGED <<unitVars, logVars, progVars>>

ServerInit ==
    /\ UnitIdle
    /\ caller = "server" /\ input = ServerConfig
    /\ pc = "idle" /\ in = NotCalled
    /\ ctxErr = "nil" /\ timerFired = FALSE /\ fault = "none"
    /\ wire = <<>> /\ resp = NoResponse /\ ret = NotReturned
    /\ result = NoResult
    /\ calls = <<>>
    /\ logging = LogIdle

ServerNext ==
    \/ \E req \in SessionRequests : Invoke(req)
    \/ \E k \in DOMAIN calls : HandlerBegins(k)
    \/ \E k \in DOMAIN calls : \E status \in SessionStatuses, body \in SessionBodies :
            HandlerReturns(k, status, body)
    \/ \E k \in DOMAIN calls : \E f \in {"canceled", "client_timeout", "conn"} :
            HandlerFails(k, f)

ServerSpec == ServerInit /\ [][ServerNext]_vars

\* ------------------------------------------------------------- the logger
\* Goroutines call initLogger, setVerbose and the logging functions (Debug,
\* Info, Warn, Error: the same two lines each) at the same time. once.Do
\* runs its function in the first caller, makes every other caller wait until
\* it has returned, and orders the function's writes before every return of
\* once.Do. ensureLogger reads the variable logger outside once.Do.
LevelFor(verbose) == IF verbose THEN "debug" ELSE "info"

\* Goroutine p goes on after a return of once.Do: it is ordered after the
\* construction and sees the logger built.
AfterOnce(proc) ==
    [proc EXCEPT !.pc = proc.then, !.then = "idle", !.synced = TRUE, !.view = "ready"]

\* once.Do(func() {...}) entered by goroutine p, which goes on at `then`.
OnceDo(l, p, verbose, then) ==
    LET proc == [l.procs[p] EXCEPT !.verbose = verbose, !.then = then] IN
    CASE l.once = "done" -> [l EXCEPT !.procs[p] = AfterOnce(proc)]
      [] l.once = "idle" -> [l EXCEPT !.once = "running",
                                      !.procs[p] = [proc EXCEPT !.pc = "setLevel"]]
      [] OTHER -> [l EXCEPT !.procs[p] = [proc EXCEPT !.pc = "waitOnce"]]

\* What a read of logger can give a goroutine that no once.Do orders after the
\* write: before the write nil; after it, unordered, the old nil, the pointer
\* with the Logger's fields not yet visible (stale), or the Logger as built.
RacyReads(l) == IF l.logger = "nil" THEN {"nil"} ELSE {"nil", "stale", "ready"}

\* A goroutine calls initLogger(verbose).
InitLogger(p, verbose) ==
    /\ caller = "logger"
    /\ logging.procs[p].pc = "idle" /\ logging.ncalls < MaxLogCalls
    /\ logging' = OnceDo([logging EXCEPT !.ncalls = @ + 1], p, verbose, "idle")
    /\ UNCHANGED <<unitVars, serverVars, progVars>>

\* Inside once.Do: levelVar.Set(...).
OnceSetLevel(p) ==
    /\ caller = "logger"
    /\ logging.procs[p].pc = "setLevel"
    /\ logging' = [logging EXCEPT !.level = LevelFor(logging.procs[p].verbose),
                                  !.procs[p].pc = "newLogger"]
    /\ UNCHANGED <<unitVars, serverVars, progVars>>

\* Inside once.Do: handler := slog.NewJSONHandler(...); logger = slog.New(handler).
\* The write races with every read of logger made outside once.Do by another
\* goroutine.
OnceNewLogger(p) ==
    /\ caller = "logger"
    /\ logging.procs[p].pc = "newLogger"
    /\ logging' = [logging EXCEPT
            !.logger = "set",
            !.built = @ + 1,
            !.raced = @ \/ \E q \in LogProcs \ {p} : logging.procs[q].racy,
            !.procs[p].pc = "onceExit"]
    /\ UNCHANGED <<unitVars, serverVars, progVars>>

\* once.Do returns in the goroutine that ran the function.
OnceExit(p) ==
    /\ caller = "logger"
    /\ logging.procs[p].pc = "onceExit"
    /\ logging' = [logging EXCEPT !.once = "done",
                                  !.procs[p] = AfterOnce(logging.procs[p])]
    /\ UNCHANGED <<unitVars, serverVars, progVars>>

\* once.Do returns in a goroutine that waited for the function to end.
OnceWaitEnds(p) ==
    /\ caller = "logger"
    /\ logging.procs[p].pc = "waitOnce" /\ logging.once = "done"
    /\ logging' = [logging EXCEPT !.procs[p] = AfterOnce(logging.procs[p])]
    /\ UNCHANGED <<unitVars, serverVars, progVars>>

\* A goroutine calls setVerbose(verbose): levelVar.Set is atomic.
SetVerbose(p, verbose) ==
    /\ caller = "logger"
    /\ logging.procs[p].pc = "idle" /\ logging.ncalls < MaxLogCalls
    /\ logging' = [logging EXCEPT !.ncalls = @ + 1, !.level = LevelFor(verbose)]
    /\ UNCHANGED <<unitVars, serverVars, progVars>>

\* A goroutine calls Debug, Info, Warn or Error: ensureLogger reads logger and
\* calls initLogger(false) when it reads nil.
EnsureLogger(p) ==
    /\ caller = "logger"
    /\ logging.procs[p].pc = "idle" /\ logging.ncalls < MaxLogCalls
    /\ LET l == [logging EXCEPT !.ncalls = @ + 1] IN
       IF logging.procs[p].synced
       THEN logging' = [l EXCEPT !.procs[p].pc = "use", !.procs[p].view = "ready"]
       ELSE \E seen \in RacyReads(logging) :
               LET r == [l EXCEPT !.procs[p].racy = TRUE,
                                  !.raced = @ \/ logging.logger = "set"]
               IN logging' = IF seen = "nil" THEN OnceDo(r, p, FALSE, "use")
                             ELSE [r EXCEPT !.procs[p].pc = "use", !.procs[p].view = seen]
    /\ UNCHANGED <<unitVars, serverVars, progVars>>

\* logger.Debug(msg, args...) and its like: the call through the logger read.
LoggerCall(p) ==
    /\ caller = "logger"
    /\ logging.procs[p].pc = "use"
    /\ logging' = [logging EXCEPT !.used = @ \cup {logging.procs[p].view},
                                  !.procs[p].pc = "idle"]
    /\ UNCHANGED <<unitVars, serverVars, progVars>>

LoggerInit ==
    /\ UnitIdle
    /\ caller = "logger" /\ input = NoArgs
    /\ pc = "idle" /\ in = NotCalled
    /\ ctxErr = "nil" /\ timerFired = FALSE /\ fault = "none"
    /\ wire = <<>> /\ resp = NoResponse /\ ret = NotReturned
    /\ result = NoResult
    /\ calls = <<>>
    /\ logging = LogIdle

LoggerNext ==
    \/ \E p \in LogProcs, verbose \in BOOLEAN : InitLogger(p, verbose)
    \/ \E p \in LogProcs : OnceSetLevel(p)
    \/ \E p \in LogProcs : OnceNewLogger(p)
    \/ \E p \in LogProcs : OnceExit(p)
    \/ \E p \in LogProcs : OnceWaitEnds(p)
    \/ \E p \in LogProcs, verbose \in BOOLEAN : SetVerbose(p, verbose)
    \/ \E p \in LogProcs : EnsureLogger(p)
    \/ \E p \in LogProcs : LoggerCall(p)

LoggerSpec == LoggerInit /\ [][LoggerNext]_vars

\* ------------------------------------------------------------- unit tests
\* The envelopes ExtractAnswer is applied to: nil, and every envelope of at
\* most MaxItems items and at most MaxSegs content segments in all.
IsTestEnvelope(e) ==
    \/ e = NilResponse
    \/ \E k \in 0..MaxItems :
         \E kinds \in [1..k -> ItemKinds], counts \in [1..k -> 0..MaxSegs] :
            /\ SegsBefore(counts, k + 1) <= MaxSegs
            /\ \E segs \in [1..SegsBefore(counts, k + 1) -> respContent] :
                  e = PtrTo(MkResponse("resp_1", "m", "e", MkOutput(kinds, counts, segs)))

\* The labels getTimeoutForEffort is applied to.
EffortLabels == {"minimal", "low", "medium", "high", "", "bogus", "HIGH"}

\* The strings validateEffort and validateVerbosity are applied to.
ValidateInputs == {"minimal", "low", "medium", "high", "", "weird", "invalid", "Medium", " low"}

\* The queries ShouldUseWebSearch is applied to: a lower-case, trimmed text
\* (base), the positions of it typed in upper case (caps), and the white
\* space typed before and after it.
BaseQueries ==
    {"what is the capital of france?", "latest news on the election",
     "find a good book", "define entropy", "what is known about mars",
     "what is the best laptop", "tell me a joke", "the capital of france",
     "explain recursion", "history of rome", ""}

RECURSIVE TypedFrom(_, _, _)
TypedFrom(base, caps, i) ==
    IF i > Len(base) THEN ""
    ELSE (IF i \in caps THEN MapLetter(SubSeq(base, i, i), LowerLetters, UpperLetters)
          ELSE SubSeq(base, i, i)) \o TypedFrom(base, caps, i + 1)

Typed(q) == q.left \o TypedFrom(q.base, q.caps, 1) \o q.right

IsTestQuery(q) ==
    \E base \in BaseQueries :
       \E caps \in {{}, {1}, {1, 24} \cap (1..Len(base)), 1..Len(base)} :
          \E left \in {"", " ", "\t\n"}, right \in {"", " ", "\r\n "} :
             q = [base |-> base, caps |-> caps, left |-> left, right |-> right]

Ran(r) == [done |-> TRUE, panic |-> r.panic, val |-> r.val]

\* The environments loadEnvConfig is applied to; "" is a variable unset or
\* set to the empty string (os.Getenv gives "" for both).
TestEnvs ==
    [OPENAI_API_KEY : {"", "k"}, QUESTION : {"", "q"}, MODEL : {"", "m"},
     EFFORT : {"", "high", "bogus"},
     TIMEOUT : {"", "0", "2s", "45s", "abc"},
     SHOW_ALL : {"", "true", "false", "1", "True", "notabool"}]

\* The state of a test that calls ExtractAnswer twice through one pointer: the
\* envelope the test made (given) and the envelope now behind the pointer.
Twice(e) == [given |-> e, heap |-> e]

IsTwiceArg(a) ==
    \/ a = Twice(NilResponse)
    \/ \E k \in 0..MaxItems :
         \E kinds \in [1..k -> ItemKinds], counts \in [1..k -> 0..MaxSegs] :
            /\ SegsBefore(counts, k + 1) <= MaxSegs
            /\ \E segs \in [1..SegsBefore(counts, k + 1) -> respContent] :
                  a = Twice(PtrTo(MkResponse("resp_1", "m", "e", MkOutput(kinds, counts, segs))))

UnitInit ==
    /\ ProgIdle
    /\ out = NotRun
    /\ \/ test = "ExtractAnswer" /\ IsTestEnvelope(arg)
       \/ test = "ExtractAnswerTwice" /\ IsTwiceArg(arg)
       \/ test = "loadEnvConfig" /\ arg \in TestEnvs
       \/ test = "getTimeoutForEffort" /\ arg \in EffortLabels
       \/ test \in {"validateEffort", "validateVerbosity"} /\ arg \in ValidateInputs
       \/ test = "ShouldUseWebSearch" /\ IsTestQuery(arg)

\* got := ExtractAnswer(tt.apiResp)
TestExtractAnswer ==
    /\ test = "ExtractAnswer"
    /\ ~out.done
    /\ out' = Ran(ExtractAnswer(arg))
    /\ UNCHANGED <<test, arg, serverVars, logVars, progVars>>

\* first := ExtractAnswer(resp); second := ExtractAnswer(resp): one call a
\* step, on the envelope as the call before left it.
TestExtractAnswerTwice ==
    /\ test = "ExtractAnswerTwice"
    /\ ~out.done
    /\ out' = [done |-> Len(out.val) = 1, panic |-> FALSE,
               val |-> Append(out.val, ExtractAnswer(arg.heap))]
    /\ arg' = [arg EXCEPT !.heap = ExtractAnswerLeaves(arg.heap)]
    /\ UNCHANGED <<test, serverVars, logVars, progVars>>

\* got, err := loadEnvConfig()
TestLoadEnvConfig ==
    /\ test = "loadEnvConfig"
    /\ ~out.done
    /\ out' = Ran(Return(loadEnvConfig(arg)))
    /\ UNCHANGED <<test, arg, serverVars, logVars, progVars>>

\* got := getTimeoutForEffort(tt.effort)
TestGetTimeoutForEffort ==
    /\ test = "getTimeoutForEffort"
    /\ ~out.done
    /\ out' = Ran(Return(getTimeoutForEffort(arg)))
    /\ UNCHANGED <<test, arg, serverVars, logVars, progVars>>

\* got := validateEffort(tt.in)
TestValidateEffort ==
    /\ test = "validateEffort"
    /\ ~out.done
    /\ out' = Ran(Return(validateEffort(arg)))
    /\ UNCHANGED <<test, arg, serverVars, logVars, progVars>>

\* got := validateVerbosity(tt.in)
TestValidateVerbosity ==
    /\ test = "validateVerbosity"
    /\ ~out.done
    /\ out' = Ran(Return(validateVerbosity(arg)))
    /\ UNCHANGED <<test, arg, serverVars, logVars, progVars>>

\* got := ShouldUseWebSearch(query)
TestShouldUseWebSearch ==
    /\ test = "ShouldUseWebSearch"
    /\ ~out.done
    /\ out' = Ran(Return(ShouldUseWebSearch(Typed(arg))))
    /\ UNCHANGED <<test, arg, serverVars, logVars, progVars>>

UnitNext ==
    \/ TestShouldUseWebSearch
    \/ TestExtractAnswerTwice
    \/ TestLoadEnvConfig
    \/ TestExtractAnswer
    \/ TestGetTimeoutForEffort
    \/ TestValidateEffort
    \/ TestValidateVerbosity

UnitSpec == UnitInit /\ [][UnitNext]_vars

\* ------------------------------------------------- claims on ExtractAnswer
\* The positions <<item, segment>> of an envelope's contributing segments:
\* output_text segments with a non-empty text, inside message items.
Surviving(env) ==
    {p \in UNION {{<<i, j>> : j \in DOMAIN env.Output[i].Content} : i \in DOMAIN env.Output} :
        /\ env.Output[p[1]].Type = "message"
        /\ env.Output[p[1]].Content[p[2]].Type = "output_text"
        /\ env.Output[p[1]].Content[p[2]].Text # <<>>}

TextAt(env, p) == env.Output[p[1]].Content[p[2]].Text

\* Envelope order: items in order, segments in order within an item.
Before(p, q) == p[1] < q[1] \/ (p[1] = q[1] /\ p[2] < q[2])

RECURSIVE SumLen(_, _)
SumLen(env, S) ==
    IF S = {} THEN 0
    ELSE LET p == CHOOSE x \in S : TRUE IN Len(TextAt(env, p)) + SumLen(env, S \ {p})

\* r is the surviving texts in envelope order with one space between neighbours:
\* each text sits at the offset its predecessors and their spaces leave it.
IsJoinOfSurviving(env, r) ==
    LET P == Surviving(env) IN
    /\ Len(r) = (IF P = {} THEN 0 ELSE SumLen(env, P) + Cardinality(P) - 1)
    /\ \A p \in P :
        LET pre == {q \in P : Before(q, p)}
            off == SumLen(env, pre) + Cardinality(pre)
        IN /\ \A k \in 1..Len(TextAt(env, p)) : r[off + k] = TextAt(env, p)[k]
           /\ off > 0 => r[off] = " "

\* C1: ExtractAnswer returns exactly the non-empty output_text texts of the
\* message items, in envelope order, joined by single spaces; nothing else.
C1_ExtractJoinsSurviving ==
    (test = "ExtractAnswer" /\ out.done /\ ~arg.nil)
        => (~out.panic /\ IsJoinOfSurviving(arg.val, out.val))

\* Two texts survive, from different items, and some segment is filtered out.
C1_Witness ==
    /\ test = "ExtractAnswer" /\ out.done /\ ~arg.nil
    /\ \E p, q \in Surviving(arg.val) : p[1] < q[1]
    /\ \E i \in DOMAIN arg.val.Output : \E j \in DOMAIN arg.val.Output[i].Content :
          <<i, j>> \notin Surviving(arg.val)
    /\ Len(out.val) > 0

\* C2: ExtractAnswer is total: it returns a string for every envelope and
\* never fails; nil, no items, and no contributing segment all give "".
C2_ExtractTotal ==
    (test = "ExtractAnswer" /\ out.done)
        => /\ ~out.panic
           /\ out.val \in Seq({"A", "B", "C", " "})
           /\ (arg.nil \/ Surviving(arg.val) = {}) => out.val = <<>>

\* ExtractAnswer was applied to a nil envelope and returned "".
C2_Witness ==
    test = "ExtractAnswer" /\ out.done /\ arg.nil /\ ~out.panic /\ out.val = <<>>

\* ------------------------------------------- claims on getTimeoutForEffort
\* C10: getTimeoutForEffort returns 90 s for minimal, 180 s for low, 300 s
\* for medium, 600 s for high, and 180 s for "" and every other label.
C10_TimeoutTable ==
    (test = "getTimeoutForEffort" /\ out.done)
        => /\ ~out.panic
           /\ arg = "minimal" => out.val = 90
           /\ arg = "low" => out.val = 180
           /\ arg = "medium" => out.val = 300
           /\ arg = "high" => out.val = 600
           /\ arg \notin {"minimal", "low", "medium", "high"} => out.val = 180

\* An unrecognised label was mapped to low's timeout.
C10_Witness ==
    test = "getTimeoutForEffort" /\ out.done /\ arg = "bogus" /\ out.val = 180

\* -------------------------------------------------------- claims on CallAPI
\* C3: the JSON body carries previous_response_id iff previousResponseID is
\* non-empty (and then that value), and tools iff useWebSearch (and then
\* exactly [{type: web_search_preview}]); otherwise the field is absent.
C3_OptionalFieldsOmitted ==
    \A i \in DOMAIN wire :
        LET b == wire[i].body IN
        /\ ("previous_response_id" \in DOMAIN b) <=> (in.args.previousResponseID # "")
        /\ ("previous_response_id" \in DOMAIN b)
              => b.previous_response_id = in.args.previousResponseID
        /\ ("tools" \in DOMAIN b) <=> in.args.useWebSearch
        /\ ("tools" \in DOMAIN b) => b.tools = <<[type |-> "web_search_preview"]>>

\* A request went out for previousResponseID = "" and useWebSearch = false,
\* and its body has the four required fields and no other.
C3_Witness ==
    /\ Len(wire) = 1
    /\ in.args.previousResponseID = "" /\ ~in.args.useWebSearch
    /\ DOMAIN wire[1].body = {"model", "input", "reasoning", "text"}

\* C4: with an empty credential CallAPI returns ErrNoAPIKey and no envelope,
\* and no request is built or sent.
C4_NoKeyNoRequest ==
    (in.called /\ in.args.apiKey = "")
        => /\ Returned
           /\ ErrorsIs(ret.err, ErrNoAPIKey)
           /\ ret.resp.nil
           /\ wire = <<>>
           /\ resp = NoResponse

\* CallAPI was entered with an empty credential and has returned ErrNoAPIKey.
C4_Witness ==
    in.called /\ in.args.apiKey = "" /\ Returned /\ ret.err = ErrNoAPIKey

NotAnEnvelope(body) ==
    \/ body.syntax \in {"invalid", "array"}
    \/ /\ body.syntax = "object"
       /\ \/ body.id.t \notin {"absent", "string"}
          \/ body.model.t \notin {"absent", "string"}
          \/ body.effort.t \notin {"absent", "string"}
          \/ body.output.t \notin {"absent", "array"}

\* C6: a 2xx response whose body is not JSON of the envelope's shape gives no
\* envelope and a decode error that carries the raw body with the parse failure.
C6_DecodeErrorCarriesBody ==
    (Returned /\ resp.got = "all" /\ resp.status >= 200 /\ resp.status < 300
        /\ NotAnEnvelope(resp.body))
        => /\ ret.resp.nil
           /\ ret.err # NoError
           /\ \E i \in DOMAIN ret.err : ret.err[i].type \in {"json.SyntaxError", "json.UnmarshalTypeError"}
           /\ \E i \in DOMAIN ret.err : ret.err[i].body = resp.body

\* The body of Scenario D was received with status 200, and the error
\* returned is the parse failure wrapped as "parse json" and nothing more.
C6_Witness ==
    /\ Returned /\ resp.got = "all" /\ resp.status = 200
    /\ resp.body.text = "this is not valid json"
    /\ ret.err = Errorf("parse json", SyntaxError)

\* C7: a call that cannot be completed returns an error whose cause the
\* caller can tell: timeout (deadline exceeded, or a net.Error that timed
\* out), cancellation, or connection failure.
C7_TransportCauseKept ==
    (Returned /\ fault # "none")
        => LET timedOut == ErrorsIs(ret.err, ContextDeadlineExceeded) \/ IsNetTimeout(ret.err)
               canceled == ErrorsIs(ret.err, ContextCanceled)
           IN /\ ret.resp.nil
              /\ ret.err # NoError
              /\ ErrorsAs(ret.err, "APIError") = <<>>
              /\ (fault \in {"deadline", "client_timeout"}) <=> timedOut
              /\ (fault = "canceled") <=> canceled
              /\ (fault = "conn") => ErrorsAs(ret.err, "net.OpError") # <<>>

\* Scenario C: the client's timeout expired while the call awaited the response.
C7_Witness ==
    /\ Returned /\ fault = "client_timeout" /\ resp.got = "none"
    /\ IsNetTimeout(ret.err)

IsTransportError(err) ==
    /\ err # NoError
    /\ err[1].text \in {"http request", "read response"}
    /\ ErrorsAs(err, "APIError") = <<>>

\* An event that aborts the call happened while it was in flight.
Aborted == fault \in {"canceled", "deadline", "client_timeout"}

\* C9 as stated: a call in flight always eventually returns.
C9_NeverHangs == (pc \in InFlight) ~> Returned

\* C9, amended: a call in flight whose timeout is positive or whose context
\* has a deadline always eventually returns; and once the context is
\* cancelled, or its deadline or the timeout expires, while the call is in
\* flight, the call returns a transport error and no envelope.
C9_BoundedCallReturns ==
    /\ (pc \in InFlight /\ (in.args.timeout > 0 \/ in.args.ctx = "deadline")) ~> Returned
    /\ (pc \in InFlight /\ Aborted)
          ~> (Returned /\ IsTransportError(ret.err) /\ ret.resp.nil)

\* The tool handler's call, whose context has no deadline, was in flight when
\* the client's timeout expired, and has returned a transport error.
C9_Witness ==
    /\ caller = "mcp" /\ Returned /\ fault = "client_timeout"
    /\ IsTransportError(ret.err) /\ ret.resp.nil

\* C11: validateEffort and validateVerbosity always return, never fail, and
\* return a valid label: the input itself when it is one of minimal, low,
\* medium, high (for verbosity: low, medium, high), and "medium" for every
\* other input, the empty string included.
C11_ValidateTotal ==
    /\ (test = "validateEffort" /\ out.done)
         => /\ ~out.panic
            /\ out.val \in {"minimal", "low", "medium", "high"}
            /\ out.val = (IF arg \in {"minimal", "low", "medium", "high"} THEN arg ELSE "medium")
    /\ (test = "validateVerbosity" /\ out.done)
         => /\ ~out.panic
            /\ out.val \in {"low", "medium", "high"}
            /\ out.val = (IF arg \in {"low", "medium", "high"} THEN arg ELSE "medium")

\* validateEffort was applied to the empty string and returned "medium".
C11_Witness ==
    test = "validateEffort" /\ out.done /\ arg = "" /\ out.val = "medium"

\* The rules of the classifier on a lower-case, trimmed text, in order.
NeedsWebSearch(text) ==
    CASE \E i \in DOMAIN currentIndicators : Contains(text, currentIndicators[i]) -> TRUE
      [] \E i \in DOMAIN searchIndicators : Contains(text, searchIndicators[i]) -> TRUE
      [] \E i \in DOMAIN knowledgePatterns : HasPrefix(text, knowledgePatterns[i]) -> FALSE
      [] OTHER -> TRUE

\* C12: ShouldUseWebSearch answers by the rules applied to the lower-cased,
\* trimmed query (recency word: true; else search word: true; else knowledge
\* prefix: false; else true), whatever the case of its letters and the white
\* space around it; "What is the capital of France?" gives false and "latest
\* news on the election" gives true.
C12_ClassifierRules ==
    (test = "ShouldUseWebSearch" /\ out.done)
        => /\ ~out.panic
           /\ out.val = NeedsWebSearch(arg.base)
           /\ arg.base = "what is the capital of france?" => out.val = FALSE
           /\ arg.base = "latest news on the election" => out.val = TRUE

\* "What is the capital of France?", typed with its capitals and with white
\* space around it, was classified as needing no search.
C12_Witness ==
    /\ test = "ShouldUseWebSearch" /\ out.done
    /\ Typed(arg) = "\t\nWhat is the capital of France? "
    /\ out.val = FALSE

NoQuery(args) == args.query.t # "string" \/ args.query.s = ""

\* C14: without a query (none, not a string, or empty) HandleWebSearch
\* returns no Go error and a result with success=false and error "Please
\* provide a query to search for", and CallAPI is never entered and nothing
\* is sent.
C14_NoQueryNoCall ==
    (caller = "mcp" /\ NoQuery(input.args))
        => /\ ~in.called /\ wire = <<>> /\ resp = NoResponse
           /\ pc \in {"idle", "done"}
           /\ pc = "done"
                => /\ result.err = NoError /\ ~result.nil
                   /\ ~result.res.Success
                   /\ result.res.Error = "Please provide a query to search for"

\* HandleWebSearch was given a number as query and returned the result.
C14_Witness ==
    /\ caller = "mcp" /\ pc = "done" /\ input.args.query = DynNumber
    /\ result.res.Error = "Please provide a query to search for" /\ wire = <<>>

\* HandleWebSearch has returned after a call that gave an envelope.
GotEnvelope == caller = "mcp" /\ pc = "done" /\ in.called /\ ret.err = NoError

\* timeout.String() for the four timeouts of the effort table.
TimeoutText(seconds) ==
    CASE seconds = 90 -> "1m30s"
      [] seconds = 180 -> "3m0s"
      [] seconds = 300 -> "5m0s"
      [] seconds = 600 -> "10m0s"

\* The fields a result echoes from the request: query, requested_model,
\* requested_effort, timeout_used, web_search_used, previous_response_id.
EchoesRequest(res) ==
    /\ res.Query = input.args.query.s
    /\ res.RequestedModel = in.args.model
    /\ res.RequestedEffort = in.args.effort
    /\ res.TimeoutUsed = TimeoutText(in.args.timeout)
    /\ res.WebSearchUsed = ("tools" \in DOMAIN wire[1].body)
    /\ res.PreviousResponseID
          = (IF input.args.previous_response_id.t = "string"
             THEN input.args.previous_response_id.s ELSE "")

\* The fields a result echoes from the response: id, model, effort.
EchoesResponse(res) ==
    /\ res.ID = StringField(resp.body.id)
    /\ res.Model = StringField(resp.body.model)
    /\ res.Effort = StringField(resp.body.effort)

\* C15: when the envelope yields no text, HandleWebSearch returns no Go error
\* and a result with success=false, error "No answer found in response", and
\* the echo fields of a success result: those of the request and the id,
\* model and effort of the response.
C15_NoAnswerEchoes ==
    (GotEnvelope /\ ExtractAnswer(ret.resp).val = <<>>)
        => /\ result.err = NoError /\ ~result.nil
           /\ ~result.res.Success
           /\ result.res.Error = "No answer found in response"
           /\ EchoesRequest(result.res)
           /\ EchoesResponse(result.res)

\* The remote service answered with an envelope that has an id, a model and
\* an effort but no text; the result says "No answer found in response" and
\* its id, model and effort are empty.
C15_Witness ==
    /\ GotEnvelope /\ ExtractAnswer(ret.resp).val = <<>>
    /\ resp.body.id = JString("resp_1")
    /\ result.res.Error = "No answer found in response"
    /\ EchoesRequest(result.res)
    /\ result.res.ID = "" /\ result.res.Model = "" /\ result.res.Effort = ""

\* C16: when the envelope yields text, HandleWebSearch returns success=true
\* with answer = ExtractAnswer(envelope), id, model and effort as the remote
\* service reported them, requested_model and requested_effort as defaulted
\* and validated, and query, timeout_used, web_search_used and
\* previous_response_id of the request.
C16_SuccessResult ==
    (GotEnvelope /\ ExtractAnswer(ret.resp).val # <<>>)
        => /\ result.err = NoError /\ ~result.nil
           /\ result.res.Success
           /\ result.res.Error = ""
           /\ result.res.Answer = ExtractAnswer(ret.resp).val
           /\ EchoesRequest(result.res)
           /\ EchoesResponse(result.res)
           /\ result.res.RequestedModel
                = (IF input.args.model.t = "string" /\ input.args.model.s # ""
                   THEN input.args.model.s ELSE "gpt-5-mini")
           /\ result.res.RequestedEffort
                = (IF input.args.reasoning_effort = DynString("high") THEN "high" ELSE "medium")

\* A call that asked for the default model and effort "high" succeeded; the
\* result reports the model and the effort the remote service named, which
\* are not the requested ones.
C16_Witness ==
    /\ GotEnvelope /\ result.res.Success /\ result.res.Answer # <<>>
    /\ result.res.RequestedModel = "gpt-5-mini" /\ result.res.Model = "gpt-5-mini-2025"
    /\ result.res.RequestedEffort = "high" /\ result.res.Effort = "low"
    /\ result.res.TimeoutUsed = "10m0s" /\ result.res.ID = "resp_1"

\* The tool invocation ended in a failure: no usable query, a failed call, or
\* an envelope without text.
ToolFailed ==
    \/ NoQuery(input.args)
    \/ in.called /\ ret.err # NoError
    \/ in.called /\ ret.err = NoError /\ ExtractAnswer(ret.resp).val = <<>>

\* The handler's result is the JSON of a result with success=false and an
\* error text.
IsFailurePayload(r) ==
    /\ ~r.isError
    /\ "success" \in DOMAIN r.json /\ r.json.success = FALSE
    /\ "error" \in DOMAIN r.json /\ r.json.error # ""

\* C17 as stated: the handler returns a nil error for every outcome, and for
\* every failure the result is a {success:false, error:...} payload.
C17_FailuresAreSuccessFalsePayloads ==
    (caller = "tool" /\ pc = "done")
        => /\ result.err = NoError
           /\ ToolFailed => IsFailurePayload(result)

\* C17, amended: the handler returns a nil error for every outcome. When the
\* query is missing or no string, or HandleWebSearch returns an error
\* (configuration, transport, remote, decode), the result is a tool error
\* result (isError set) whose text is that error's message; when the query
\* is empty or the envelope has no text, the result is the JSON of a result
\* with success=false and an error text.
C17_HandlerNeverRaises ==
    (caller = "tool" /\ pc = "done")
        => /\ result.err = NoError
           /\ CASE input.args.query.t # "string" ->
                     /\ result.isError /\ result.message # NoError /\ ~in.called
                [] in.called /\ ret.err # NoError ->
                     /\ result.isError /\ result.message = ret.err
                     /\ result.json = NoFields
                [] OTHER ->
                     /\ ~result.isError
                     /\ "success" \in DOMAIN result.json
                     /\ ToolFailed <=> IsFailurePayload(result)
                     /\ ~ToolFailed <=> result.json.success

\* The remote service refused the tool's call with 401: the handler returned
\* a nil error and a tool error result with the APIError as its text.
C17_Witness ==
    /\ caller = "tool" /\ pc = "done" /\ resp.status = 401
    /\ result.err = NoError /\ result.isError
    /\ result.message = APIError(401, resp.body)

\* C18: the tool takes a boolean web_search that defaults to true: given
\* web_search=false the request has no tools field and the result says
\* web_search_used=false; without it the request carries the web-search tool
\* and the result says web_search_used=true.
C18_ToolWebSearchArgument ==
    (caller = "tool" /\ in.called /\ Len(wire) = 1)
        => LET wanted == input.args.web_search # DynBool(FALSE) IN
           /\ ("tools" \in DOMAIN wire[1].body) <=> wanted
           /\ (pc = "done" /\ ~result.isError) => result.json.web_search_used = wanted

\* The tool was invoked with web_search=false; the request went out with the
\* web-search tool and the result says web_search_used=true.
C18_Witness ==
    /\ caller = "tool" /\ pc = "done" /\ ~result.isError /\ Len(wire) = 1
    /\ input.args.web_search = DynBool(FALSE)
    /\ wire[1].body.tools = <<[type |-> "web_search_preview"]>>
    /\ result.json.web_search_used = TRUE

\* The id invocation k passed as previous_response_id; "" when it passed none.
PassedID(k) == AsString(calls[k].req.previous_response_id).val

\* Invocation k ended with a result payload (the JSON of a WebSearchResult).
HasPayload(k) == calls[k].st = "done" /\ ~calls[k].result.isError

\* The continuity field of a JSON object is the id v, and is absent for "".
ContinuityIs(json, v) ==
    IF v = "" THEN "previous_response_id" \notin DOMAIN json
    ELSE "previous_response_id" \in DOMAIN json /\ json.previous_response_id = v

\* C19: over any sequence of tool invocations, the id in each success result
\* is the id of that invocation's remote response; an invocation that passes
\* an id as previous_response_id sends exactly that value and its result
\* payload echoes it; an invocation that passes none sends no continuity field
\* and echoes none, whatever earlier invocations returned.
C19_Continuity ==
    \A k \in DOMAIN calls :
       /\ (HasPayload(k) /\ calls[k].result.json.success)
            => /\ "id" \in DOMAIN calls[k].result.json
               /\ calls[k].result.json.id = StringField(calls[k].resp.body.id)
       /\ calls[k].sent # <<>>
            => /\ Len(calls[k].sent) = 1
               /\ ContinuityIs(calls[k].sent[1].body, PassedID(k))
       /\ HasPayload(k) => ContinuityIs(calls[k].result.json, PassedID(k))

\* The first invocation succeeded with id resp_1; the second passed resp_1,
\* sent it, and its success result echoes it beside its own id resp_2.
C19_Witness ==
    /\ Len(calls) = 2
    /\ HasPayload(1) /\ calls[1].result.json.success /\ calls[1].result.json.id = "resp_1"
    /\ PassedID(1) = ""
    /\ PassedID(2) = "resp_1" /\ calls[2].sent # <<>>
    /\ calls[2].sent[1].body.previous_response_id = "resp_1"
    /\ HasPayload(2) /\ calls[2].result.json.success
    /\ calls[2].result.json.id = "resp_2"
    /\ calls[2].result.json.previous_response_id = "resp_1"

\* The request sent and the result of invocation k, as its own arguments and
\* its own response give them.
OwnOutcome(k) ==
    /\ calls[k].sent # <<>>
         => /\ calls[k].sent[1].body.input = calls[k].req.query.s
            /\ ContinuityIs(calls[k].sent[1].body, PassedID(k))
    /\ HasPayload(k)
         => /\ calls[k].result.json.query = calls[k].req.query.s
            /\ calls[k].result.json.success
                 => /\ calls[k].result.json.id = StringField(calls[k].resp.body.id)
                    /\ calls[k].result.json.model = StringField(calls[k].resp.body.model)
    /\ (calls[k].st = "done" /\ calls[k].result.isError /\ calls[k].resp # NoResponse)
         => calls[k].result.message = APIError(calls[k].resp.status, calls[k].resp.body)

\* Two invocations with the same arguments send the same request, and with
\* the same response or fault as well they end with the same result.
SameInSameOut(j, k) ==
    calls[j].req = calls[k].req
        => /\ (calls[j].sent # <<>> /\ calls[k].sent # <<>>) => calls[j].sent = calls[k].sent
           /\ (/\ calls[j].st = "done" /\ calls[k].st = "done"
               /\ calls[j].resp = calls[k].resp /\ calls[j].fault = calls[k].fault)
                => calls[j].result = calls[k].result

\* A step leaves invocation k alone.
Untouched(k) == k \in DOMAIN calls' /\ calls'[k] = calls[k]

\* A step touches one invocation at most, never changes the arguments of an
\* invocation, and never changes a request already sent or a response already
\* received.
OneInvocationPerStep ==
    /\ DOMAIN calls \subseteq DOMAIN calls'
    /\ \A j, k \in DOMAIN calls : j # k => Untouched(j) \/ Untouched(k)
    /\ Len(calls') > Len(calls) => \A k \in DOMAIN calls : Untouched(k)
    /\ \A k \in DOMAIN calls :
          /\ calls'[k].req = calls[k].req
          /\ calls[k].sent # <<>> => calls'[k].sent = calls[k].sent
          /\ calls[k].resp # NoResponse => calls'[k].resp = calls[k].resp
          /\ calls[k].st = "done" => calls'[k] = calls[k]

\* C20: for every interleaving of invocations in flight together, the request
\* an invocation sends and its result are given by its own arguments and its
\* own response alone, and no step of one invocation reads or changes the
\* request or the response of another.
C20_Independent ==
    /\ [](\A k \in DOMAIN calls : OwnOutcome(k))
    /\ [](\A j, k \in DOMAIN calls : SameInSameOut(j, k))
    /\ [][OneInvocationPerStep]_vars

\* Two invocations with different queries were in flight together; the second
\* has returned its own query and its own response's id while the first is
\* still waiting with its own request on the wire.
C20_Witness ==
    /\ Len(calls) = 2
    /\ calls[1].st = "inflight" /\ calls[1].sent[1].body.input = "q1"
    /\ PassedID(1) = "resp_0"
    /\ HasPayload(2) /\ calls[2].result.json.success
    /\ calls[2].result.json.query = "q2" /\ calls[2].result.json.id = "resp_2"
    /\ PassedID(2) = ""

\* A run of the command line has ended.
CLIEnded == caller = "cli" /\ pc = "done"

\* The hard failure a run met: the missing credential, or the error CallAPI
\* returned (transport, remote status, undecodable body); NoError when none.
CLIHardFailure ==
    IF input.env.OPENAI_API_KEY = "" THEN ErrNoAPIKey
    ELSE IF in.called THEN ret.err
    ELSE NoError

C22_OutboundRequest ==
    \A n \in DOMAIN wire :
       /\ in.called
       /\ wire[n].method = "POST"
       /\ wire[n].url = in.args.baseURL
       /\ DOMAIN wire[n].header = {"Content-Type", "Authorization"}
       /\ wire[n].header["Content-Type"] = <<"application/json">>
       /\ wire[n].header["Authorization"] = <<"Bearer " \o in.args.apiKey>>
       /\ {"model", "input", "reasoning", "text"} \subseteq DOMAIN wire[n].body
       /\ wire[n].body.model = in.args.model
       /\ wire[n].body.input = in.args.query
       /\ wire[n].body.reasoning = [effort |-> in.args.effort]
       /\ wire[n].body.text = [verbosity |-> in.args.verbosity]

\* A call with the credential test-key, effort high and no continuity id or
\* web search is on the wire with both headers and the four fields only.
C22_Witness ==
    /\ Len(wire) = 1 /\ in.called
    /\ in.args.apiKey = "test-key" /\ in.args.effort = "high"
    /\ wire[1].header["Authorization"] = <<"Bearer test-key">>
    /\ wire[1].body.reasoning.effort = "high"
    /\ DOMAIN wire[1].body = {"model", "input", "reasoning", "text"}

TrueWords == {"true", "1", "True"}
FalseWords == {"false"}
DurationWords == {<<"0", 0>>, <<"2s", 2>>, <<"45s", 45>>}

\* C24: loadEnvConfig returns ErrNoAPIKey and a zero configuration whenever
\* OPENAI_API_KEY is unset or empty, whatever the other variables hold;
\* otherwise it never fails: a SHOW_ALL or TIMEOUT value that does not parse
\* leaves the Has* flag false and the value zero, a value that parses sets the
\* flag and the parsed value, and QUESTION, MODEL and EFFORT pass unchanged.
C24_LoadEnvConfig ==
    (test = "loadEnvConfig" /\ out.done)
        => LET cfg == out.val.cfg
               err == out.val.err
           IN IF arg.OPENAI_API_KEY = ""
              THEN /\ err # NoError /\ ErrorsIs(err, ErrNoAPIKey)
                   /\ cfg = ZeroEnvConfig
              ELSE /\ err = NoError
                   /\ cfg.APIKey = arg.OPENAI_API_KEY
                   /\ cfg.Question = arg.QUESTION
                   /\ cfg.Model = arg.MODEL
                   /\ cfg.Effort = arg.EFFORT
                   /\ cfg.HasShowAll <=> arg.SHOW_ALL \in TrueWords \cup FalseWords
                   /\ cfg.ShowAll <=> arg.SHOW_ALL \in TrueWords
                   /\ cfg.HasTimeout <=> \E w \in DurationWords : w[1] = arg.TIMEOUT
                   /\ \A w \in DurationWords : w[1] = arg.TIMEOUT => cfg.Timeout = w[2]
                   /\ ~cfg.HasTimeout => cfg.Timeout = 0

\* The key is set, TIMEOUT and SHOW_ALL do not parse, and EFFORT is not a
\* label: the configuration is returned without an error, both flags false.
C24_Witness ==
    /\ test = "loadEnvConfig" /\ out.done
    /\ arg.OPENAI_API_KEY = "k" /\ arg.TIMEOUT = "abc" /\ arg.SHOW_ALL = "notabool"
    /\ arg.EFFORT = "bogus"
    /\ out.val.err = NoError
    /\ ~out.val.cfg.HasTimeout /\ ~out.val.cfg.HasShowAll
    /\ out.val.cfg.Effort = "bogus"

\* The effort label a run of the command line ends up with: -effort, else env
\* EFFORT, else the default, and the default again for an unknown label.
CLIEffortInUse ==
    LET asked == IF input.flags.effort.t # "absent" THEN input.flags.effort.s
                 ELSE input.env.EFFORT
    IN IF asked \in {"minimal", "low", "medium", "high"} THEN asked ELSE "medium"

\* C25: in CLI mode the timeout applied to the call is the -timeout value when
\* the flag is given, else the TIMEOUT environment value when it is set and
\* parses, else getTimeoutForEffort of the validated effort finally in use; an
\* explicit timeout is never replaced by the effort-based one.
C25_CLITimeoutPrecedence ==
    (caller = "cli" /\ in.called)
        => in.args.timeout =
             (CASE input.flags.timeout = DynString("0") -> 0
                [] input.flags.timeout = DynString("45s") -> 45
                [] input.flags.timeout = NoEntry /\ input.env.TIMEOUT = "0" -> 0
                [] input.flags.timeout = NoEntry /\ input.env.TIMEOUT = "2s" -> 2
                [] OTHER -> (CASE CLIEffortInUse = "minimal" -> 90
                               [] CLIEffortInUse = "low" -> 180
                               [] CLIEffortInUse = "medium" -> 300
                               [] CLIEffortInUse = "high" -> 600))

\* Env TIMEOUT is 2s, and -effort low is given without -timeout: the call ran
\* with effort low and the 2 s of the environment, not low's 180 s.
C25_Witness ==
    /\ caller = "cli" /\ in.called /\ pc = "done"
    /\ input.flags.timeout = NoEntry /\ input.flags.effort = DynString("low")
    /\ input.env.TIMEOUT = "2s"
    /\ in.args.effort = "low" /\ in.args.timeout = 2

\* An initLogger call that finds once.Do done leaves the logger, the level and
\* the count of constructions as they were.
LaterInitChangesNothing ==
    \A p \in LogProcs :
       (logging.once = "done" /\ logging.procs[p].pc = "idle"
            /\ logging'.ncalls = logging.ncalls + 1
            /\ logging'.procs[p].synced /\ logging'.procs[p].pc = "idle"
            /\ logging'.level = logging.level)
         => /\ logging'.logger = logging.logger
            /\ logging'.built = logging.built

\* C26: the global logger is initialised at most once and is safe under
\* concurrency: for every interleaving of concurrent calls of initLogger,
\* setVerbose and the logging functions the logger is constructed exactly
\* once, a later initLogger call changes nothing, no read of the logger races
\* with its construction, and every logging call uses a logger that is not
\* nil and is fully built.
C26_LoggerSafe ==
    /\ [](logging.built <= 1)
    /\ [](logging.once = "done" => logging.built = 1 /\ logging.logger = "set")
    /\ [][logging.built > 0 => logging'.logger = logging.logger]_vars
    /\ [][LaterInitChangesNothing]_vars
    /\ [](~logging.raced)
    /\ [](logging.used \subseteq {"ready"})

\* While one goroutine was inside initLogger another called a logging
\* function: its unordered read of logger gave the pointer before the Logger's
\* fields were visible, and the call went through that logger. The logger was
\* built once.
C26_Witness ==
    /\ caller = "logger"
    /\ logging.built = 1 /\ logging.raced
    /\ "stale" \in logging.used
    /\ \E p \in LogProcs : logging.procs[p].pc \in {"onceExit"}

\* The kind of failure an error of CallAPI stands for, told the way a caller
\* can: by errors.Is, errors.As and the wrapping text.
ErrorKind(err) ==
    CASE err = NoError -> "none"
      [] ErrorsIs(err, ErrNoAPIKey) -> "configuration"
      [] ErrorsAs(err, "APIError") # <<>> -> "remote"
      [] err[1].text = "parse json" -> "decode"
      [] err[1].text \in {"http request", "read response"} -> "transport"
      [] OTHER -> err[1].text

\* The first failure that applies to a call, in the order configuration,
\* request building, transport, remote, decode.
FirstFailure ==
    IF in.args.apiKey = "" THEN "configuration"
    ELSE IF wire = <<>> THEN "build request"
    ELSE IF fault # "none" THEN "transport"
    ELSE IF resp.status < 200 \/ resp.status >= 300 THEN "remote"
    ELSE IF NotAnEnvelope(resp.body) THEN "decode"
    ELSE "none"

\* C27: CallAPI checks the HTTP status before decoding the body: a status
\* outside [200,300) always yields an APIError, whether or not the body is
\* valid JSON, and a decode error arises only for a status inside; the
\* failure kinds are tested in the order configuration, transport, remote,
\* decode, and the first that applies is the one returned.
C27_StatusBeforeDecode ==
    Returned
        => /\ ErrorKind(ret.err) = FirstFailure
           /\ (resp.got = "all" /\ fault = "none"
                 /\ (resp.status < 200 \/ resp.status >= 300))
                => ret.err = APIError(resp.status, resp.body)
           /\ ErrorKind(ret.err) = "decode"
                => /\ resp.got = "all" /\ resp.status >= 200 /\ resp.status < 300
                   /\ fault = "none"
           /\ ErrorKind(ret.err) = "remote" => resp.got = "all" /\ fault = "none"
           /\ ErrorKind(ret.err) = "configuration" => wire = <<>> /\ resp = NoResponse

\* Status 500 came with a body that is not JSON: the call returned the
\* APIError with that body, not a decode error.
C27_Witness ==
    /\ Returned /\ resp.got = "all" /\ resp.status = 500
    /\ resp.body.syntax = "invalid"
    /\ ret.err = APIError(500, resp.body)

\* The policy as an ordered rule list: a lexicon, how it is matched (as a
\* prefix, or anywhere), and the verdict of the rule.
RuleList ==
    << [lexicon |-> currentIndicators, prefix |-> FALSE, verdict |-> TRUE],
       [lexicon |-> searchIndicators, prefix |-> FALSE, verdict |-> TRUE],
       [lexicon |-> knowledgePatterns, prefix |-> TRUE, verdict |-> FALSE] >>

RuleMatches(rule, text) ==
    \E i \in DOMAIN rule.lexicon :
       IF rule.prefix THEN HasPrefix(text, rule.lexicon[i])
       ELSE Contains(text, rule.lexicon[i])

\* First match wins; no match: true.
RECURSIVE FirstMatch(_, _, _)
FirstMatch(rules, k, text) ==
    IF k > Len(rules) THEN TRUE
    ELSE IF RuleMatches(rules[k], text) THEN rules[k].verdict
    ELSE FirstMatch(rules, k + 1, text)

\* C28: ShouldUseWebSearch is equivalent, for every query, to the
\* first-match-wins rule list recency > search-intent > knowledge-prefix >
\* default-true: the recency re-check inside the knowledge-prefix branch is
\* never the one that decides, a query with a knowledge prefix and a
\* search-intent term but no recency term gives true, and the function gives
\* false only for a normalised query that starts with a knowledge prefix and
\* has no recency and no search-intent term.
C28_FirstMatchWins ==
    (test = "ShouldUseWebSearch" /\ out.done)
        => \E text \in {ToLower(TrimSpace(Typed(arg)))} :
              LET recency == RuleMatches(RuleList[1], text)
                  intent == RuleMatches(RuleList[2], text)
                  knowledge == RuleMatches(RuleList[3], text)
              IN /\ out.val = FirstMatch(RuleList, 1, text)
                 /\ ReturnTaken(text) # "current again"
                 /\ out.val = (ReturnTaken(text) # "knowledge")
                 /\ (knowledge /\ intent /\ ~recency) => out.val = TRUE
                 /\ (out.val = FALSE) <=> (knowledge /\ ~recency /\ ~intent)

\* "What is the best laptop" starts with a knowledge prefix and has the
\* search word "best": it was classified as needing search.
C28_Witness ==
    /\ test = "ShouldUseWebSearch" /\ out.done
    /\ Typed(arg) = "What is the best laptop"
    /\ out.val = TRUE
    /\ ReturnTaken("what is the best laptop") = "search"

\* C29: every return of HandleWebSearch is well-formed: either a non-nil
\* result with a nil error or a nil result with a non-nil error, never both
\* and never neither; in a returned result success=true implies a non-empty
\* answer and an empty error, and success=false implies a non-empty error and
\* an empty answer.
C29_WellFormedReturn ==
    (caller = "mcp" /\ pc = "done")
        => /\ result.nil <=> result.err # NoError
           /\ ~result.nil
                => /\ result.res.Success
                        => result.res.Answer # <<>> /\ result.res.Error = ""
                   /\ ~result.res.Success
                        => result.res.Error # "" /\ result.res.Answer = <<>>

\* HandleWebSearch returned a nil result with the error of a refused call
\* (status 401).
C29_Witness ==
    /\ caller = "mcp" /\ pc = "done" /\ in.called /\ resp.status = 401
    /\ result.nil /\ result.err = APIError(401, resp.body)

\* The effort label HandleWebSearch ends up with for the reasoning_effort it
\* was given, and the seconds and the text of that label's timeout.
EffortInUse ==
    IF input.args.reasoning_effort.t = "string"
         /\ input.args.reasoning_effort.s \in {"minimal", "low", "medium", "high"}
    THEN input.args.reasoning_effort.s
    ELSE "medium"

EffortTable ==
    [minimal |-> <<90, "1m30s">>, low |-> <<180, "3m0s">>,
     medium |-> <<300, "5m0s">>, high |-> <<600, "10m0s">>]

\* C30: in HandleWebSearch the effort is validated before the timeout is
\* resolved: the timeout applied to the call and reported as timeout_used is
\* getTimeoutForEffort(validateEffort(reasoning_effort)), one of the four
\* durations of the table, and for an empty or unknown reasoning_effort the
\* timeout of the default label, not low's fallback; the effort sent in the
\* request is that same validated label.
C30_TimeoutOfValidatedEffort ==
    (caller = "mcp" /\ in.called)
        => /\ in.args.effort = EffortInUse
           /\ in.args.timeout = EffortTable[EffortInUse][1]
           /\ in.args.timeout = getTimeoutForEffort(validateEffort(AsString(input.args.reasoning_effort).val))
           /\ in.args.timeout \in {90, 180, 300, 600}
           /\ EffortInUse \notin {"minimal", "low", "high"} => in.args.timeout = 300
           /\ \A n \in DOMAIN wire : wire[n].body.reasoning.effort = EffortInUse
           /\ (pc = "done" /\ ~result.nil)
                => /\ result.res.TimeoutUsed = EffortTable[EffortInUse][2]
                   /\ result.res.RequestedEffort = EffortInUse

\* HandleWebSearch was given the effort "bogus": the request carried "medium"
\* and the result reports the 5 minutes of medium.
C30_Witness ==
    /\ caller = "mcp" /\ pc = "done" /\ in.called /\ ~result.nil
    /\ input.args.reasoning_effort = DynString("bogus")
    /\ Len(wire) = 1 /\ wire[1].body.reasoning.effort = "medium"
    /\ in.args.timeout = 300 /\ result.res.TimeoutUsed = "5m0s"

====
